---- MODULE Spec2Model ----
(***************************************************************************)
(* Model of the course-audit engine: audit_gen_ed, audit_major and         *)
(* calculate_free_electives (src/src/logic/auditor.rs) and the result      *)
(* aggregation of on_start_analysis (src/src/main.rs).                     *)
(*                                                                         *)
(* Record indices are 1-based here (Rust: 0-based); credits are the whole  *)
(* numbers the transcript pattern (\d+) and the curriculum data produce,   *)
(* so f32 arithmetic is exact and modelled by integers.                    *)
(* An Option<T> is a sequence of length 0 (None) or 1 (Some).              *)
(***************************************************************************)
EXTENDS Integers, Sequences, FiniteSets, TLC

\* ------------------------------------------------------------------ bounds
\* longest transcript (number of parsed records) the model enumerates
MaxRecords == 3

\* longest transcript of each of two analyses that run side by side
MaxCallRecords == 2

\* longest transcript of the analyses that are followed to their end
MaxFairRecords == 2

\* ----------------------------------------------------------------- helpers
None == <<>>
Some(v) == <<v>>
IsSome(o) == Len(o) = 1
Unwrap(o) == o[1]

MinOf(S) == CHOOSE m \in S : \A n \in S : m <= n

Range(s) == {s[i] : i \in 1..Len(s)}

RECURSIVE SumParsed(_, _)
\* sum of parsed_credit over a set of record indices
SumParsed(cs, S) ==
    IF S = {} THEN 0
    ELSE LET i == MinOf(S) IN cs[i].parsed_credit + SumParsed(cs, S \ {i})

\* ------------------------------------------------------------ models.rs
\* ParsedCourse
ParsedCourse(code, name, grade, credit) ==
    [code |-> code, name |-> name, grade |-> grade, parsed_credit |-> credit]

\* GenEdCourse / MajorCourse
CurCourse(code, credits) == [code |-> code, name |-> code, credits |-> credits]

\* MissingCourse {category, description}; the formatted description text is
\* kept as its parts: the leading text (head), which format produced it
\* (kind), the position of the strand / sub-group, the credit deficit and the
\* listed options.
MissingCourse(category, head, kind, pos, sub, deficit, options) ==
    [category |-> category,
     description |-> [head |-> head, kind |-> kind, pos |-> pos, sub |-> sub,
                      deficit |-> deficit, options |-> options]]

\* grades that count as passed
PassingGrades == {"A", "S"}

is_passing_grade(grade) == grade \in PassingGrades

\* normalized (code, name) key of the free-elective dedupe
free_elective_dedupe_key(code, name) == <<code, name>>

\* ----------------------------------------------------------- auditor.rs
\* mutant: the curriculum credit is awarded whatever the transcript says
matched_course_credits_uncapped(curriculum_credits, parsed) == curriculum_credits

\* f32::min of the curriculum credit and the parsed credit
matched_course_credits(curriculum_credits, parsed) ==
    IF curriculum_credits <= parsed.parsed_credit
    THEN curriculum_credits
    ELSE parsed.parsed_credit

\* mutant: the last record that qualifies is taken, not the first
FirstMatch_Last(cs, used, code) ==
    LET S == {i \in 1..Len(cs) :
                /\ i \notin used
                /\ cs[i].code = code
                /\ is_passing_grade(cs[i].grade)}
    IN  IF S = {} THEN 0 ELSE CHOOSE m \in S : \A n \in S : m >= n

\* courses.iter().enumerate().find(|(idx, parsed)| !used.contains(idx)
\*     && parsed.code == code && is_passing_grade(&parsed.grade))
\* 0 stands for None
FirstMatch(cs, used, code) ==
    LET S == {i \in 1..Len(cs) :
                /\ i \notin used
                /\ cs[i].code = code
                /\ is_passing_grade(cs[i].grade)}
    IN  IF S = {} THEN 0 ELSE MinOf(S)

\* one entry of the log of credit awards (history of the allocation)
Award(alloc, kind, pos, sub, course, idx, credit) ==
    [alloc |-> alloc, kind |-> kind, pos |-> pos, sub |-> sub, code |-> course.code,
     declared |-> course.credits, idx |-> idx, credit |-> credit]

\* accumulators of one audit_gen_ed call (lines 27-30), with the award log
GenEdAcc(credits, missing, used, elective_total, log) ==
    [completed_credits |-> credits, missing_courses |-> missing,
     used_indices |-> used, gen_ed_elective_total_credits |-> elective_total,
     log |-> log]

\* strand_courses.iter().find(|c| &c.code == code): position of the first
\* declared course with that code, 0 for None
FindCourse(strand_courses, code) ==
    LET S == {k \in 1..Len(strand_courses) : strand_courses[k].code = code}
    IN  IF S = {} THEN 0 ELSE MinOf(S)

RECURSIVE PairFound(_, _, _, _, _)
\* lines 47-66: the halves of one pair that have a declared course and an
\* unused passing record; used_indices is not updated between the halves
PairFound(cs, used, strand_courses, pair, k) ==
    IF k > Len(pair) THEN <<>>
    ELSE LET d    == FindCourse(strand_courses, pair[k])
             idx  == IF d = 0 THEN 0 ELSE FirstMatch(cs, used, pair[k])
             rest == PairFound(cs, used, strand_courses, pair, k + 1)
         IN  IF idx = 0 THEN rest
             ELSE <<[idx |-> idx, course |-> strand_courses[d],
                     credit |-> matched_course_credits(strand_courses[d].credits,
                                                       cs[idx])]>> \o rest

RECURSIVE SequentialPairLoop_Partial(_, _, _, _, _, _)
\* mutant: the half found of an incomplete pair is marked used
SequentialPairLoop_Partial(cs, pos, strand_courses, groups, k, acc) ==
    IF k > Len(groups) THEN [acc |-> acc, satisfied |-> FALSE]
    ELSE IF Len(groups[k]) # 2
         THEN SequentialPairLoop_Partial(cs, pos, strand_courses, groups, k + 1, acc)
    ELSE LET found == PairFound(cs, acc.used_indices, strand_courses, groups[k], 1)
         IN  IF Len(found) = 2
             THEN [acc |->
                     [acc EXCEPT
                        !.used_indices = @ \cup {found[1].idx, found[2].idx},
                        !.completed_credits = @ + found[1].credit + found[2].credit,
                        !.log = @ \o
                          <<Award("gen_ed", "choose_sequential_pair", pos, k,
                                  found[1].course, found[1].idx, found[1].credit),
                            Award("gen_ed", "choose_sequential_pair", pos, k,
                                  found[2].course, found[2].idx, found[2].credit)>>],
                   satisfied |-> TRUE]
             ELSE SequentialPairLoop_Partial(cs, pos, strand_courses, groups, k + 1,
                    [acc EXCEPT !.used_indices =
                        @ \cup {found[j].idx : j \in 1..Len(found)}])

RECURSIVE SequentialPairLoop(_, _, _, _, _, _)
\* lines 42-77: 'outer loop over sequence_groups; returns the accumulator and
\* sequence_satisfied
SequentialPairLoop(cs, pos, strand_courses, groups, k, acc) ==
    IF k > Len(groups) THEN [acc |-> acc, satisfied |-> FALSE]
    ELSE IF Len(groups[k]) # 2
         THEN SequentialPairLoop(cs, pos, strand_courses, groups, k + 1, acc)
    ELSE LET found == PairFound(cs, acc.used_indices, strand_courses, groups[k], 1)
         IN  IF Len(found) = 2
             THEN [acc |->
                     [acc EXCEPT
                        !.used_indices = @ \cup {found[1].idx, found[2].idx},
                        !.completed_credits = @ + found[1].credit + found[2].credit,
                        !.log = @ \o
                          <<Award("gen_ed", "choose_sequential_pair", pos, k,
                                  found[1].course, found[1].idx, found[1].credit),
                            Award("gen_ed", "choose_sequential_pair", pos, k,
                                  found[2].course, found[2].idx, found[2].credit)>>],
                   satisfied |-> TRUE]
             ELSE SequentialPairLoop(cs, pos, strand_courses, groups, k + 1, acc)

\* the pairs of length 2, as listed in the missing entry (lines 82-87)
PairText(groups) == SelectSeq(groups, LAMBDA p : Len(p) = 2)

\* lines 36-98: the "choose_sequential_pair" arm
StrandSequentialPair(cs, pos, strand, acc) ==
    LET r == IF IsSome(strand.courses) /\ IsSome(strand.sequence_groups)
             THEN SequentialPairLoop(cs, pos, Unwrap(strand.courses),
                                     Unwrap(strand.sequence_groups), 1, acc)
             ELSE [acc |-> acc, satisfied |-> FALSE]
    IN  IF ~r.satisfied /\ IsSome(strand.sequence_groups)
        THEN [r.acc EXCEPT !.missing_courses = Append(@,
                 MissingCourse("General Education", strand.name, "choose one pair",
                               pos, 0, 0, PairText(Unwrap(strand.sequence_groups))))]
        ELSE r.acc

\* the option list of a missing entry: one singleton per listed course
Options(list) == [k \in 1..Len(list) |-> <<list[k].code>>]

RECURSIVE FindMapFirst(_, _, _, _)
\* lines 102-114: find_map over the declared options; position of the first
\* option that has an unused passing record, 0 for None
FindMapFirst(cs, used, list, k) ==
    IF k > Len(list) THEN 0
    ELSE IF FirstMatch(cs, used, list[k].code) # 0 THEN k
    ELSE FindMapFirst(cs, used, list, k + 1)

\* lines 99-131: the "choose_one" arm
StrandChooseOne(cs, pos, strand, acc) ==
    IF ~IsSome(strand.courses) THEN acc
    ELSE LET list == Unwrap(strand.courses)
             k    == FindMapFirst(cs, acc.used_indices, list, 1)
         IN  IF k # 0
             THEN LET idx == FirstMatch(cs, acc.used_indices, list[k].code)
                      mc  == matched_course_credits(list[k].credits, cs[idx])
                  IN  [acc EXCEPT
                         !.completed_credits = @ + mc,
                         !.used_indices = @ \cup {idx},
                         !.log = Append(@, Award("gen_ed", "choose_one", pos, 0,
                                                 list[k], idx, mc))]
             ELSE [acc EXCEPT !.missing_courses = Append(@,
                      MissingCourse("General Education", strand.name, "choose 1",
                                    pos, 0, 0, Options(list)))]

RECURSIVE SubGroupLoop_NoStop(_, _, _, _, _, _, _)
\* mutant: the sub-group goes through its whole list, whatever it has reached
SubGroupLoop_NoStop(cs, pos, sub_group, k, sub_group_credits, acc, g) ==
    IF k > Len(sub_group.courses)
    THEN [acc |-> acc, sub_group_credits |-> sub_group_credits]
    ELSE LET course == sub_group.courses[k]
             idx    == FirstMatch(cs, acc.used_indices, course.code)
         IN  IF idx = 0
             THEN SubGroupLoop_NoStop(cs, pos, sub_group, k + 1, sub_group_credits,
                                      acc, g)
             ELSE LET mc == matched_course_credits(course.credits, cs[idx])
                  IN  SubGroupLoop_NoStop(cs, pos, sub_group, k + 1,
                        sub_group_credits + mc,
                        [acc EXCEPT
                           !.completed_credits = @ + mc,
                           !.used_indices = @ \cup {idx},
                           !.log = Append(@, Award("gen_ed", "choose_all_sub_groups",
                                                   pos, g, course, idx, mc))], g)

RECURSIVE SubGroupLoop(_, _, _, _, _, _, _)
\* lines 137-155: the courses of one sub-group, until required_credits is met
SubGroupLoop(cs, pos, sub_group, k, sub_group_credits, acc, g) ==
    IF k > Len(sub_group.courses) \/ sub_group_credits >= sub_group.required_credits
    THEN [acc |-> acc, sub_group_credits |-> sub_group_credits]
    ELSE LET course == sub_group.courses[k]
             idx    == FirstMatch(cs, acc.used_indices, course.code)
         IN  IF idx = 0
             THEN SubGroupLoop(cs, pos, sub_group, k + 1, sub_group_credits, acc, g)
             ELSE LET mc == matched_course_credits(course.credits, cs[idx])
                  IN  SubGroupLoop(cs, pos, sub_group, k + 1, sub_group_credits + mc,
                        [acc EXCEPT
                           !.completed_credits = @ + mc,
                           !.used_indices = @ \cup {idx},
                           !.log = Append(@, Award("gen_ed", "choose_all_sub_groups",
                                                   pos, g, course, idx, mc))], g)

RECURSIVE SubGroupsLoop_StopAtShortfall(_, _, _, _, _, _)
\* mutant: the sub-groups after the first one that falls short are skipped
SubGroupsLoop_StopAtShortfall(cs, pos, strand, sub_groups, g, acc) ==
    IF g > Len(sub_groups) THEN acc
    ELSE LET sg == sub_groups[g]
             r  == SubGroupLoop(cs, pos, sg, 1, 0, acc, g)
         IN  IF r.sub_group_credits < sg.required_credits
             THEN [r.acc EXCEPT !.missing_courses = Append(@,
                     MissingCourse("General Education", strand.name,
                                   "sub_group missing credits", pos, g,
                                   sg.required_credits - r.sub_group_credits,
                                   Options(sg.courses)))]
             ELSE SubGroupsLoop_StopAtShortfall(cs, pos, strand, sub_groups, g + 1,
                                                r.acc)

RECURSIVE SubGroupsLoop(_, _, _, _, _, _)
\* lines 134-176: every sub-group of the strand, each with its missing entry
SubGroupsLoop(cs, pos, strand, sub_groups, g, acc) ==
    IF g > Len(sub_groups) THEN acc
    ELSE LET sg == sub_groups[g]
             r  == SubGroupLoop(cs, pos, sg, 1, 0, acc, g)
             a2 == IF r.sub_group_credits < sg.required_credits
                   THEN [r.acc EXCEPT !.missing_courses = Append(@,
                           MissingCourse("General Education", strand.name,
                                         "sub_group missing credits", pos, g,
                                         sg.required_credits - r.sub_group_credits,
                                         Options(sg.courses)))]
                   ELSE r.acc
         IN  SubGroupsLoop(cs, pos, strand, sub_groups, g + 1, a2)

\* lines 132-178: the "choose_all_sub_groups" arm
StrandChooseAllSubGroups(cs, pos, strand, acc) ==
    IF IsSome(strand.sub_groups)
    THEN SubGroupsLoop(cs, pos, strand, Unwrap(strand.sub_groups), 1, acc)
    ELSE acc

RECURSIVE ChooseAllLoop_SilentSkip(_, _, _, _, _, _)
\* mutant: a listed course without a record is passed over, nothing reported
ChooseAllLoop_SilentSkip(cs, pos, strand, list, k, acc) ==
    IF k > Len(list) THEN acc
    ELSE LET course == list[k]
             idx    == FirstMatch(cs, acc.used_indices, course.code)
             a2 == IF idx # 0
                   THEN LET mc == matched_course_credits(course.credits, cs[idx])
                        IN  [acc EXCEPT
                               !.completed_credits = @ + mc,
                               !.used_indices = @ \cup {idx},
                               !.log = Append(@, Award("gen_ed", "choose_all", pos, 0,
                                                       course, idx, mc))]
                   ELSE acc
         IN  ChooseAllLoop_SilentSkip(cs, pos, strand, list, k + 1, a2)

RECURSIVE ChooseAllLoop(_, _, _, _, _, _)
\* lines 181-201: every listed course is matched or reported missing
ChooseAllLoop(cs, pos, strand, list, k, acc) ==
    IF k > Len(list) THEN acc
    ELSE LET course == list[k]
             idx    == FirstMatch(cs, acc.used_indices, course.code)
             a2 == IF idx # 0
                   THEN LET mc == matched_course_credits(course.credits, cs[idx])
                        IN  [acc EXCEPT
                               !.completed_credits = @ + mc,
                               !.used_indices = @ \cup {idx},
                               !.log = Append(@, Award("gen_ed", "choose_all", pos, 0,
                                                       course, idx, mc))]
                   ELSE [acc EXCEPT !.missing_courses = Append(@,
                           MissingCourse("General Education", strand.name, "course",
                                         pos, 0, 0, <<<<course.code>>>>))]
         IN  ChooseAllLoop(cs, pos, strand, list, k + 1, a2)

\* lines 179-203: the default arm (also "choose_all" and any unknown rule)
StrandChooseAll(cs, pos, strand, acc) ==
    IF IsSome(strand.courses)
    THEN ChooseAllLoop(cs, pos, strand, Unwrap(strand.courses), 1, acc)
    ELSE acc

\* line 33: strand.selection_rule.as_deref().unwrap_or("choose_all")
SelectionRule(strand) ==
    IF IsSome(strand.selection_rule) THEN Unwrap(strand.selection_rule)
    ELSE "choose_all"

RECURSIVE SubCatLoop(_, _, _, _, _, _)
\* lines 209-221: every listed course of one elective sub-category
SubCatLoop(cs, sc, sub_cat, k, sub_cat_credits, acc) ==
    IF k > Len(sub_cat.courses)
    THEN [acc |-> acc, sub_cat_credits |-> sub_cat_credits]
    ELSE LET course == sub_cat.courses[k]
             idx    == FirstMatch(cs, acc.used_indices, course.code)
         IN  IF idx = 0
             THEN SubCatLoop(cs, sc, sub_cat, k + 1, sub_cat_credits, acc)
             ELSE LET mc == matched_course_credits(course.credits, cs[idx])
                  IN  SubCatLoop(cs, sc, sub_cat, k + 1, sub_cat_credits + mc,
                        [acc EXCEPT
                           !.completed_credits = @ + mc,
                           !.gen_ed_elective_total_credits = @ + mc,
                           !.used_indices = @ \cup {idx},
                           !.log = Append(@, Award("gen_ed", "gen_ed_elective", sc, 0,
                                                   course, idx, mc))])

RECURSIVE SubCategoriesLoop_RunningTotal(_, _, _, _)
\* mutant: a sub-category is compared by the running elective total
SubCategoriesLoop_RunningTotal(cs, sub_categories, sc, acc) ==
    IF sc > Len(sub_categories) THEN acc
    ELSE LET sub_cat == sub_categories[sc]
             r  == SubCatLoop(cs, sc, sub_cat, 1, 0, acc)
             a2 == IF r.acc.gen_ed_elective_total_credits < sub_cat.required_credits
                   THEN [r.acc EXCEPT !.missing_courses = Append(@,
                           MissingCourse("General Education", "GenEd Elective",
                                         "sub_cat missing credits", sc, 0,
                                         sub_cat.required_credits - r.sub_cat_credits,
                                         <<>>))]
                   ELSE r.acc
         IN  SubCategoriesLoop_RunningTotal(cs, sub_categories, sc + 1, a2)

RECURSIVE SubCategoriesLoop(_, _, _, _)
\* lines 207-233: every elective sub-category, each with its missing entry
SubCategoriesLoop(cs, sub_categories, sc, acc) ==
    IF sc > Len(sub_categories) THEN acc
    ELSE LET sub_cat == sub_categories[sc]
             r  == SubCatLoop(cs, sc, sub_cat, 1, 0, acc)
             a2 == IF r.sub_cat_credits < sub_cat.required_credits
                   THEN [r.acc EXCEPT !.missing_courses = Append(@,
                           MissingCourse("General Education", "GenEd Elective",
                                         "sub_cat missing credits", sc, 0,
                                         sub_cat.required_credits - r.sub_cat_credits,
                                         <<>>))]
                   ELSE r.acc
         IN  SubCategoriesLoop(cs, sub_categories, sc + 1, a2)

\* lines 207-244: the elective sub-categories and the elective summary entry
GenEdElectivesStep(cs, curriculum, acc) ==
    LET a2 == SubCategoriesLoop(cs, curriculum.electives.sub_categories, 1, acc)
    IN  IF a2.gen_ed_elective_total_credits < curriculum.electives.total_required_credits
        THEN [a2 EXCEPT !.missing_courses = Append(@,
                MissingCourse("General Education", curriculum.electives.name,
                              "electives missing credits", 0, 0,
                              curriculum.electives.total_required_credits
                                - a2.gen_ed_elective_total_credits, <<>>))]
        ELSE a2

\* lines 247-250: m.description.starts_with("Overall General Education")
StartsWithOverall(m) ==
    /\ m.category = "General Education"
    /\ m.description.head = "Overall General Education"

\* mutant: the summary is appended without looking for an earlier one
GenEdOverallStep_NoGuard(curriculum, acc) ==
    IF acc.completed_credits < curriculum.total_required_credits
    THEN [acc EXCEPT !.missing_courses = Append(@,
             MissingCourse("General Education", "Overall General Education",
                           "overall missing credits", 0, 0,
                           curriculum.total_required_credits
                             - acc.completed_credits, <<>>))]
    ELSE acc

\* lines 246-261: the overall summary entry
GenEdOverallStep(curriculum, acc) ==
    IF acc.completed_credits < curriculum.total_required_credits
    THEN LET has_ge_summary ==
                \E k \in 1..Len(acc.missing_courses) :
                    StartsWithOverall(acc.missing_courses[k])
         IN  IF ~has_ge_summary
             THEN [acc EXCEPT !.missing_courses = Append(@,
                     MissingCourse("General Education", "Overall General Education",
                                   "overall missing credits", 0, 0,
                                   curriculum.total_required_credits
                                     - acc.completed_credits, <<>>))]
             ELSE acc
    ELSE acc

\* accumulators of one audit_major call (lines 273-276, 343), with the log
MajorAcc(credits, elective, missing, used, clusters, log) ==
    [completed_credits |-> credits, elective_credits |-> elective,
     missing_courses |-> missing, used_indices |-> used,
     completed_clusters_count |-> clusters, log |-> log]

RECURSIVE MajorChooseAllLoop(_, _, _, _, _)
\* lines 278-293 (category "Basic Science") and 295-310 ("Core Courses")
MajorChooseAllLoop(cs, category, list, k, acc) ==
    IF k > Len(list) THEN acc
    ELSE LET course == list[k]
             idx    == FirstMatch(cs, acc.used_indices, course.code)
             a2 == IF idx # 0
                   THEN LET mc == matched_course_credits(course.credits, cs[idx])
                        IN  [acc EXCEPT
                               !.completed_credits = @ + mc,
                               !.used_indices = @ \cup {idx},
                               !.log = Append(@, Award("major", category, k, 0,
                                                       course, idx, mc))]
                   ELSE [acc EXCEPT !.missing_courses = Append(@,
                           MissingCourse(category, course.code, "course", k, 0, 0,
                                         <<<<course.code>>>>))]
         IN  MajorChooseAllLoop(cs, category, list, k + 1, a2)

RECURSIVE CapstoneLoop_NoBreak(_, _, _, _)
\* mutant: the loop over the options goes on after a match
CapstoneLoop_NoBreak(cs, options, k, acc) ==
    IF k > Len(options) THEN [acc |-> acc, capstone_completed |-> FALSE]
    ELSE LET option == options[k]
             idx    == FirstMatch(cs, acc.used_indices, option.code)
         IN  IF idx # 0
             THEN LET mc == matched_course_credits(option.credits, cs[idx])
                      r  == CapstoneLoop_NoBreak(cs, options, k + 1,
                              [acc EXCEPT
                                 !.completed_credits = @ + mc,
                                 !.used_indices = @ \cup {idx},
                                 !.log = Append(@, Award("major", "Capstone", k, 0,
                                                         option, idx, mc))])
                  IN  [acc |-> r.acc, capstone_completed |-> TRUE]
             ELSE CapstoneLoop_NoBreak(cs, options, k + 1, acc)

RECURSIVE CapstoneLoop(_, _, _, _)
\* lines 312-326: the first option with an unused passing record, then break
CapstoneLoop(cs, options, k, acc) ==
    IF k > Len(options) THEN [acc |-> acc, capstone_completed |-> FALSE]
    ELSE LET option == options[k]
             idx    == FirstMatch(cs, acc.used_indices, option.code)
         IN  IF idx # 0
             THEN LET mc == matched_course_credits(option.credits, cs[idx])
                  IN  [acc |-> [acc EXCEPT
                                  !.completed_credits = @ + mc,
                                  !.used_indices = @ \cup {idx},
                                  !.log = Append(@, Award("major", "Capstone", k, 0,
                                                          option, idx, mc))],
                       capstone_completed |-> TRUE]
             ELSE CapstoneLoop(cs, options, k + 1, acc)

\* lines 312-341: the capstone and its missing entry
CapstoneStep(cs, curriculum, acc) ==
    LET r == CapstoneLoop(cs, curriculum.capstone.options, 1, acc)
    IN  IF ~r.capstone_completed
        THEN [r.acc EXCEPT !.missing_courses = Append(@,
                MissingCourse("Capstone", "Choose 1", "choose 1", 0, 0, 0,
                              Options(curriculum.capstone.options)))]
        ELSE r.acc

\* mutant: a course whose records are all used already does not count
TakenAnywhere_Never(cs, code) == FALSE

\* lines 357-359: courses.iter().any(|c| c.code == code && passing)
TakenAnywhere(cs, code) ==
    \E i \in 1..Len(cs) : cs[i].code = code /\ is_passing_grade(cs[i].grade)

RECURSIVE ClusterLoop_AnyGrade(_, _, _, _, _, _)
\* mutant: the lookup of a cluster course does not look at the grade
ClusterLoop_AnyGrade(cs, cpos, cluster, k, found, acc) ==
    IF k > Len(cluster.courses) THEN [acc |-> acc, found |-> found]
    ELSE LET course == cluster.courses[k]
             S      == {i \in 1..Len(cs) :
                          i \notin acc.used_indices /\ cs[i].code = course.code}
             idx    == IF S = {} THEN 0 ELSE MinOf(S)
         IN  IF idx # 0
             THEN LET mc == matched_course_credits(course.credits, cs[idx])
                  IN  ClusterLoop_AnyGrade(cs, cpos, cluster, k + 1, found + 1,
                        [acc EXCEPT
                           !.elective_credits = @ + mc,
                           !.used_indices = @ \cup {idx},
                           !.log = Append(@, Award("major", "cluster", cpos, k,
                                                   course, idx, mc))])
             ELSE IF TakenAnywhere(cs, course.code)
             THEN ClusterLoop_AnyGrade(cs, cpos, cluster, k + 1, found + 1, acc)
             ELSE ClusterLoop_AnyGrade(cs, cpos, cluster, k + 1, found, acc)

RECURSIVE ClusterLoop(_, _, _, _, _, _)
\* lines 347-364: the courses of one cluster; returns courses_found_in_cluster
ClusterLoop(cs, cpos, cluster, k, found, acc) ==
    IF k > Len(cluster.courses) THEN [acc |-> acc, found |-> found]
    ELSE LET course == cluster.courses[k]
             idx    == FirstMatch(cs, acc.used_indices, course.code)
         IN  IF idx # 0
             THEN LET mc == matched_course_credits(course.credits, cs[idx])
                  IN  ClusterLoop(cs, cpos, cluster, k + 1, found + 1,
                        [acc EXCEPT
                           !.elective_credits = @ + mc,
                           !.used_indices = @ \cup {idx},
                           !.log = Append(@, Award("major", "cluster", cpos, k,
                                                   course, idx, mc))])
             ELSE IF TakenAnywhere(cs, course.code)
             THEN ClusterLoop(cs, cpos, cluster, k + 1, found + 1, acc)
             ELSE ClusterLoop(cs, cpos, cluster, k + 1, found, acc)

RECURSIVE Flatten(_)
\* the clusters of all domains in iteration order (lines 344-345)
Flatten(domains) ==
    IF domains = <<>> THEN <<>>
    ELSE Head(domains).clusters \o Flatten(Tail(domains))

RECURSIVE ClustersLoop_EarlyExit(_, _, _, _)
\* mutant: the scan ends with the first completed cluster
ClustersLoop_EarlyExit(cs, clusters, c, acc) ==
    IF c > Len(clusters) THEN acc
    ELSE LET r == ClusterLoop(cs, c, clusters[c], 1, 0, acc)
         IN  IF r.found >= clusters[c].min_courses
             THEN [r.acc EXCEPT !.completed_clusters_count = @ + 1]
             ELSE ClustersLoop_EarlyExit(cs, clusters, c + 1, r.acc)

RECURSIVE ClustersLoop(_, _, _, _)
\* lines 344-369: every cluster of every domain, counting the completed ones
ClustersLoop(cs, clusters, c, acc) ==
    IF c > Len(clusters) THEN acc
    ELSE LET r  == ClusterLoop(cs, c, clusters[c], 1, 0, acc)
             a2 == IF r.found >= clusters[c].min_courses
                   THEN [r.acc EXCEPT !.completed_clusters_count = @ + 1]
                   ELSE r.acc
         IN  ClustersLoop(cs, clusters, c + 1, a2)

\* lines 343-381: the cluster electives and the summary missing entry
ClustersStep(cs, curriculum, acc) ==
    LET a2 == ClustersLoop(cs, Flatten(curriculum.electives.domains), 1, acc)
    IN  IF a2.completed_clusters_count < curriculum.electives.clusters_to_complete
        THEN [a2 EXCEPT !.missing_courses = Append(@,
                MissingCourse("Major Electives", "Required", "clusters", 0, 0,
                              curriculum.electives.clusters_to_complete
                                - a2.completed_clusters_count, <<>>))]
        ELSE a2

RECURSIVE OthersRecordLoop_FirstOnly(_, _, _, _, _)
\* mutant: the scan for one "other" course stops at its first match
OthersRecordLoop_FirstOnly(cs, o, course, idx, acc) ==
    IF idx > Len(cs) THEN acc
    ELSE IF /\ idx \notin acc.used_indices
            /\ cs[idx].code = course.code
            /\ is_passing_grade(cs[idx].grade)
         THEN LET mc == matched_course_credits(course.credits, cs[idx])
              IN  [acc EXCEPT
                     !.elective_credits = @ + mc,
                     !.used_indices = @ \cup {idx},
                     !.log = Append(@, Award("major", "others", o, 0,
                                             course, idx, mc))]
         ELSE OthersRecordLoop_FirstOnly(cs, o, course, idx + 1, acc)

RECURSIVE OthersRecordLoop(_, _, _, _, _)
\* lines 385-394: every record, in document order, against one "other" course
OthersRecordLoop(cs, o, course, idx, acc) ==
    IF idx > Len(cs) THEN acc
    ELSE IF /\ idx \notin acc.used_indices
            /\ cs[idx].code = course.code
            /\ is_passing_grade(cs[idx].grade)
         THEN LET mc == matched_course_credits(course.credits, cs[idx])
              IN  OthersRecordLoop(cs, o, course, idx + 1,
                    [acc EXCEPT
                       !.elective_credits = @ + mc,
                       !.used_indices = @ \cup {idx},
                       !.log = Append(@, Award("major", "others", o, 0,
                                               course, idx, mc))])
         ELSE OthersRecordLoop(cs, o, course, idx + 1, acc)

RECURSIVE OthersLoop(_, _, _, _)
\* lines 383-395: greedy match of the "others" electives
OthersLoop(cs, others, o, acc) ==
    IF o > Len(others) THEN acc
    ELSE OthersLoop(cs, others, o + 1, OthersRecordLoop(cs, o, others[o], 1, acc))

RECURSIVE FreeLoop_NoDedupe(_, _, _, _)
\* mutant: every unused passing record is credited, duplicates included
FreeLoop_NoDedupe(cs, used, idx, st) ==
    IF idx > Len(cs) THEN st
    ELSE IF idx \notin used /\ is_passing_grade(cs[idx].grade)
         THEN FreeLoop_NoDedupe(cs, used, idx + 1,
                [free_elective_credits |->
                     st.free_elective_credits + cs[idx].parsed_credit,
                 free_elective_list |->
                     Append(st.free_elective_list,
                            [idx |-> idx, code |-> cs[idx].code,
                             grade |-> cs[idx].grade,
                             credits |-> cs[idx].parsed_credit]),
                 seen_free_electives |->
                     st.seen_free_electives
                       \cup {free_elective_dedupe_key(cs[idx].code, cs[idx].name)}])
         ELSE FreeLoop_NoDedupe(cs, used, idx + 1, st)

RECURSIVE FreeLoop(_, _, _, _)
\* lines 415-431: the sweep of calculate_free_electives; the list keeps the
\* index of each listed record beside the formatted fields
FreeLoop(cs, used, idx, st) ==
    IF idx > Len(cs) THEN st
    ELSE IF idx \notin used /\ is_passing_grade(cs[idx].grade)
         THEN LET dedupe_key == free_elective_dedupe_key(cs[idx].code, cs[idx].name)
              IN  IF dedupe_key \in st.seen_free_electives
                  THEN FreeLoop(cs, used, idx + 1, st)
                  ELSE FreeLoop(cs, used, idx + 1,
                         [free_elective_credits |->
                              st.free_elective_credits + cs[idx].parsed_credit,
                          free_elective_list |->
                              Append(st.free_elective_list,
                                     [idx |-> idx, code |-> cs[idx].code,
                                      grade |-> cs[idx].grade,
                                      credits |-> cs[idx].parsed_credit]),
                          seen_free_electives |->
                              st.seen_free_electives \cup {dedupe_key}])
         ELSE FreeLoop(cs, used, idx + 1, st)

\* mutant: the used set is ignored
calculate_free_electives_IgnoreUsed(cs, used) ==
    FreeLoop(cs, {}, 1,
             [free_elective_credits |-> 0, free_elective_list |-> <<>>,
              seen_free_electives |-> {}])

\* lines 407-434
calculate_free_electives(cs, used) ==
    FreeLoop(cs, used, 1,
             [free_elective_credits |-> 0, free_elective_list |-> <<>>,
              seen_free_electives |-> {}])

\* ------------------------------------------------------------- main.rs
\* the orders in which iterating a HashSet may yield its elements
HashSetIter(set) ==
    {order \in [1..Cardinality(set) -> set] :
        \A i, j \in 1..Cardinality(set) : i # j => order[i] # order[j]}

\* mutant: only the first element the iteration yields is inserted
Extend_FirstOnly(set, order) ==
    IF order = <<>> THEN set ELSE set \cup {Head(order)}

RECURSIVE Extend(_, _)
\* lines 188-189: all_used_courses.extend(major_used.clone()), the elements
\* inserted one by one in the order the iteration yields them
Extend(set, order) ==
    IF order = <<>> THEN set
    ELSE Extend(set \cup {Head(order)}, Tail(order))

\* mutant: nothing is suppressed
Retain_KeepAll(all_missing, keep, k) == all_missing

\* mutant: once the GenEd total is met every entry is dropped, whatever its
\* category
Retain_DropAll(all_missing, keep, k) == IF keep THEN all_missing ELSE <<>>

RECURSIVE Retain(_, _, _)
\* lines 203-208: all_missing.retain(..); keep is the verdict for the
\* "General Education" entries, every other entry is kept
Retain(all_missing, keep, k) ==
    IF k > Len(all_missing) THEN <<>>
    ELSE IF all_missing[k].category = "General Education" /\ ~keep
         THEN Retain(all_missing, keep, k + 1)
         ELSE <<all_missing[k]>> \o Retain(all_missing, keep, k + 1)

\* lines 222-227: the Course shown in a bucket, with the record's index
Course(cs, idx) ==
    [idx |-> idx, code |-> cs[idx].code, name |-> cs[idx].name,
     credit |-> cs[idx].parsed_credit, grade |-> cs[idx].grade]

RECURSIVE BucketLoop_NoDedupe(_, _, _, _, _, _)
\* mutant: the free-elective bucket lists duplicates too
BucketLoop_NoDedupe(cs, gen_ed_used, major_used, all_used, idx, b) ==
    IF idx > Len(cs) THEN b
    ELSE LET course == [idx |-> idx, code |-> cs[idx].code, name |-> cs[idx].name,
                        credit |-> cs[idx].parsed_credit, grade |-> cs[idx].grade]
             b2 ==
               IF idx \in gen_ed_used
               THEN [b EXCEPT !.gen_ed_courses = Append(@, course)]
               ELSE IF idx \in all_used
               THEN [b EXCEPT !.major_courses = Append(@, course)]
               ELSE IF is_passing_grade(cs[idx].grade)
               THEN [b EXCEPT !.free_elective_courses = Append(@, course)]
               ELSE b
         IN  BucketLoop_NoDedupe(cs, gen_ed_used, major_used, all_used, idx + 1, b2)

RECURSIVE BucketLoop(_, _, _, _, _, _)
\* lines 221-244: the re-walk of every record into the three display buckets
BucketLoop(cs, gen_ed_used, major_used, all_used, idx, b) ==
    IF idx > Len(cs) THEN b
    ELSE LET course == Course(cs, idx)
             b2 ==
               IF idx \in gen_ed_used
               THEN [b EXCEPT !.gen_ed_courses = Append(@, course)]
               ELSE IF idx \in major_used
               THEN [b EXCEPT !.major_courses = Append(@, course)]
               ELSE IF idx \in all_used
               THEN [b EXCEPT !.major_courses = Append(@, course)]
               ELSE IF is_passing_grade(cs[idx].grade)
               THEN LET dedupe_key ==
                            free_elective_dedupe_key(cs[idx].code, cs[idx].name)
                    IN  IF dedupe_key \notin b.seen_free_electives
                        THEN [b EXCEPT
                                !.free_elective_courses = Append(@, course),
                                !.seen_free_electives = @ \cup {dedupe_key}]
                        ELSE b
               ELSE b
         IN  BucketLoop(cs, gen_ed_used, major_used, all_used, idx + 1, b2)

\* line 266: required_credits of the "Free Electives" category
FreeElectivesRequired == 6

\* mutant: the overall total leaves out the Major elective credits
BuildResult_NoElective(cs, gen_ed_cur, major_cur, g, m, f) ==
    LET all_used == g.used_indices \cup m.used_indices
        all_missing ==
            Retain(g.missing_courses \o m.missing_courses,
                   g.completed_credits < gen_ed_cur.total_required_credits, 1)
        b == BucketLoop(cs, g.used_indices, m.used_indices, all_used, 1,
                        [gen_ed_courses |-> <<>>, major_courses |-> <<>>,
                         free_elective_courses |-> <<>>,
                         seen_free_electives |-> {}])
    IN  [total_credits |-> g.completed_credits + m.completed_credits
                             + f.free_elective_credits,
         categories |->
            <<[name |-> "General Education",
               required_credits |-> gen_ed_cur.total_required_credits,
               collected_credits |-> g.completed_credits,
               courses |-> b.gen_ed_courses],
              [name |-> "Major Courses",
               required_credits |-> major_cur.total_required_credits,
               collected_credits |-> m.completed_credits + m.elective_credits,
               courses |-> b.major_courses],
              [name |-> "Free Electives",
               required_credits |-> FreeElectivesRequired,
               collected_credits |-> f.free_elective_credits,
               courses |-> b.free_elective_courses]>>,
         missing_subjects |-> all_missing]

\* lines 197-272: the AuditResult built from the three allocations
BuildResult(cs, gen_ed_cur, major_cur, g, m, f) ==
    LET all_used == g.used_indices \cup m.used_indices
        all_missing ==
            Retain(g.missing_courses \o m.missing_courses,
                   g.completed_credits < gen_ed_cur.total_required_credits, 1)
        b == BucketLoop(cs, g.used_indices, m.used_indices, all_used, 1,
                        [gen_ed_courses |-> <<>>, major_courses |-> <<>>,
                         free_elective_courses |-> <<>>,
                         seen_free_electives |-> {}])
    IN  [total_credits |-> g.completed_credits + m.completed_credits
                             + m.elective_credits + f.free_elective_credits,
         categories |->
            <<[name |-> "General Education",
               required_credits |-> gen_ed_cur.total_required_credits,
               collected_credits |-> g.completed_credits,
               courses |-> b.gen_ed_courses],
              [name |-> "Major Courses",
               required_credits |-> major_cur.total_required_credits,
               collected_credits |-> m.completed_credits + m.elective_credits,
               courses |-> b.major_courses],
              [name |-> "Free Electives",
               required_credits |-> FreeElectivesRequired,
               collected_credits |-> f.free_elective_credits,
               courses |-> b.free_elective_courses]>>,
         missing_subjects |-> all_missing]

\* auditor.rs:33-204: the dispatch on the selection rule
StrandStep(cs, pos, strand, acc) ==
    LET rule == SelectionRule(strand)
    IN  CASE rule = "choose_sequential_pair" -> StrandSequentialPair(cs, pos, strand, acc)
          [] rule = "choose_one" -> StrandChooseOne(cs, pos, strand, acc)
          [] rule = "choose_all_sub_groups" ->
                StrandChooseAllSubGroups(cs, pos, strand, acc)
          [] OTHER -> StrandChooseAll(cs, pos, strand, acc)

RECURSIVE StrandsLoop(_, _, _, _)
\* auditor.rs:32-205
StrandsLoop(cs, strands, s, acc) ==
    IF s > Len(strands) THEN acc
    ELSE StrandsLoop(cs, strands, s + 1, StrandStep(cs, s, strands[s], acc))

\* auditor.rs:23-264, as one call
audit_gen_ed(cs, curriculum) ==
    GenEdOverallStep(curriculum,
        GenEdElectivesStep(cs, curriculum,
            StrandsLoop(cs, curriculum.strands, 1, GenEdAcc(0, <<>>, {}, 0, <<>>))))

\* auditor.rs:269-403, as one call
audit_major(cs, curriculum) ==
    OthersLoop(cs, curriculum.electives.others, 1,
        ClustersStep(cs, curriculum,
            CapstoneStep(cs, curriculum,
                MajorChooseAllLoop(cs, "Core Courses",
                    curriculum.core_courses.courses, 1,
                    MajorChooseAllLoop(cs, "Basic Science",
                        curriculum.basic_science.courses, 1,
                        MajorAcc(0, 0, <<>>, {}, 0, <<>>))))))

\* main.rs:176-272: the AuditResult of one analysis, as one call
Analysis(cs, gen_ed_cur, major_cur) ==
    LET g == audit_gen_ed(cs, gen_ed_cur)
        m == audit_major(cs, major_cur)
        f == calculate_free_electives(cs, g.used_indices \cup m.used_indices)
    IN  BuildResult(cs, gen_ed_cur, major_cur, g, m, f)

\* ------------------------------------------------------------ the inputs
\* GenEdStrand (the fields audit_gen_ed reads)
Strand(name, rule, courses, sub_groups, sequence_groups) ==
    [name |-> name, selection_rule |-> rule, courses |-> courses,
     sub_groups |-> sub_groups, sequence_groups |-> sequence_groups]

\* GenEdSubGroup / GenEdElectiveSubCategory
Group(name, required_credits, courses) ==
    [name |-> name, required_credits |-> required_credits, courses |-> courses]

\* GenEdCurriculum
GenEdCurriculum(total, strands, elect_total, sub_categories) ==
    [name |-> "General Education", total_required_credits |-> total,
     strands |-> strands,
     electives |-> [name |-> "GenEd Electives",
                    total_required_credits |-> elect_total,
                    sub_categories |-> sub_categories]]

\* MajorCluster
Cluster(min_courses, courses) == [min_courses |-> min_courses, courses |-> courses]

\* MajorCurriculum
MajorCurriculum(total, basic, core, capstone, domains, to_complete, others) ==
    [name |-> "Major", total_required_credits |-> total,
     basic_science |-> [courses |-> basic],
     core_courses |-> [courses |-> core],
     capstone |-> [options |-> capstone],
     electives |-> [clusters_to_complete |-> to_complete,
                    domains |-> domains, others |-> others]]

\* The curricula the audits are run against.  X, Y and Z are curriculum
\* codes, W is in no curriculum.
\* GenEdA: a ChooseAll strand (3cr + 1cr) and a ChooseOne strand over two
\* 2-credit options, one elective sub-category.
GenEdA ==
    GenEdCurriculum(6,
        <<Strand("S1", Some("choose_all"),
                 Some(<<CurCourse("X", 3), CurCourse("Y", 1)>>), None, None),
          Strand("S2", Some("choose_one"),
                 Some(<<CurCourse("Y", 2), CurCourse("Z", 2)>>), None, None)>>,
        3, <<Group("E1", 0, <<CurCourse("Z", 3)>>)>>)

\* GenEdB: the sequential-pair strand [[X,Y],[Y,Z]], no electives.
GenEdB ==
    GenEdCurriculum(4,
        <<Strand("S1", Some("choose_sequential_pair"),
                 Some(<<CurCourse("X", 2), CurCourse("Y", 2), CurCourse("Z", 2)>>),
                 None, Some(<<<<"X", "Y">>, <<"Y", "Z">>>>))>>,
        0, <<>>)

\* GenEdC: a sub-group strand and a sequential-pair strand whose first pair
\* names the same code twice.
GenEdC ==
    GenEdCurriculum(7,
        <<Strand("S1", Some("choose_all_sub_groups"), None,
                 Some(<<Group("G1", 2, <<CurCourse("X", 2), CurCourse("Y", 2)>>),
                        Group("G2", 2, <<CurCourse("Z", 3)>>)>>), None),
          Strand("S2", Some("choose_sequential_pair"),
                 Some(<<CurCourse("X", 3), CurCourse("Y", 3)>>),
                 None, Some(<<<<"X", "X">>, <<"X", "Y">>>>))>>,
        2, <<Group("E1", 2, <<CurCourse("Y", 1), CurCourse("Z", 1)>>)>>)

\* GenEdD: a strand without a selection rule, and strands whose lists are
\* empty (S2, S5, S6) or absent (S3, S4); three elective sub-categories, the
\* last one with a requirement of its own.  The sixth strand carries the name
\* the overall summary entry starts with, so its missing entry is taken for
\* an overall summary.
GenEdD ==
    GenEdCurriculum(3,
        <<Strand("S1", None, Some(<<CurCourse("Z", 3)>>), None, None),
          Strand("S2", Some("choose_one"), Some(<<>>), None, None),
          Strand("S3", Some("choose_one"), None, None, None),
          Strand("S4", Some("choose_sequential_pair"),
                 Some(<<CurCourse("X", 2), CurCourse("Y", 2)>>), None, None),
          Strand("S5", Some("choose_sequential_pair"), None, None, Some(<<>>)),
          Strand("Overall General Education", Some("choose_all_sub_groups"), None,
                 Some(<<Group("G1", 1, <<>>)>>), None)>>,
        4, <<Group("E1", 0, <<>>), Group("E2", 0, <<CurCourse("Y", 3)>>),
             Group("E3", 2, <<CurCourse("X", 2)>>)>>)

GenEdCurricula == {GenEdA, GenEdB, GenEdC, GenEdD}

\* MajorA: one course per ChooseAll group, two capstone options, one
\* cluster of three with min_courses 2, one "other" course.
MajorA ==
    MajorCurriculum(12,
        <<CurCourse("X", 3)>>, <<CurCourse("Y", 2)>>,
        <<CurCourse("Y", 3), CurCourse("Z", 6)>>,
        <<[clusters |-> <<Cluster(2, <<CurCourse("X", 3), CurCourse("Y", 3),
                                       CurCourse("Z", 3)>>)>>]>>,
        1, <<CurCourse("Z", 3)>>)

\* MajorB: empty ChooseAll groups and capstone, two domains whose clusters
\* share a course, one cluster to complete out of three, a repeatable "other"
\* course.
MajorB ==
    MajorCurriculum(6,
        <<>>, <<>>, <<>>,
        <<[clusters |-> <<Cluster(1, <<CurCourse("Z", 3)>>)>>],
          [clusters |-> <<Cluster(1, <<CurCourse("Z", 3), CurCourse("Y", 3)>>),
                          Cluster(1, <<>>)>>]>>,
        1, <<CurCourse("X", 3)>>)

MajorCurricula == {MajorA, MajorB}

\* The parsed records a transcript is made of.
Records ==
    {ParsedCourse("X", "n1", "A", 1), ParsedCourse("X", "n1", "A", 3),
     ParsedCourse("X", "n1", "F", 3),
     ParsedCourse("Y", "n1", "A", 3),
     ParsedCourse("Z", "n1", "A", 3),
     ParsedCourse("W", "n1", "A", 3), ParsedCourse("W", "n1", "A", 1),
     ParsedCourse("W", "n2", "A", 3)}

Transcripts == UNION {[1..n -> Records] : n \in 0..MaxRecords}

\* ------------------------------------------------------------- the state
VARIABLES
    courses,    \* parse_transcript's records (main.rs:174)
    gen_ed,     \* get_gen_ed_curriculum() (main.rs:176)
    major,      \* get_major_curriculum() (main.rs:177)
    pc,         \* position in the audit
    strand_i,   \* audit_gen_ed: the strand the loop of line 32 is at
    ge,         \* audit_gen_ed: its accumulators
    mj,         \* audit_major: its accumulators
    fe,         \* calculate_free_electives: its result
    result,     \* the AuditResult, None until it is set (main.rs:275)
    call2,      \* the locals of a second analysis, run side by side
    ui          \* the signals of App, the #file-input element and the task

vars == <<courses, gen_ed, major, pc, strand_i, ge, mj, fe, result, call2, ui>>

\* what the steps of the first analysis only read: its inputs, the locals
\* of the second analysis and the page
inputs == <<courses, gen_ed, major, call2, ui>>

\* mutant: the call starts on the used-index set of the analysis under way
NewGenEdAcc_Shared == GenEdAcc(0, <<>>, ge.used_indices, 0, <<>>)

\* auditor.rs:27-30: the accumulators an audit_gen_ed call creates
NewGenEdAcc == GenEdAcc(0, <<>>, {}, 0, <<>>)

\* the locals of an analysis of (cs, g, m) that is at position `at`
Locals(cs, g, m, at) ==
    [courses |-> cs, gen_ed |-> g, major |-> m, pc |-> at, strand_i |-> 1,
     ge |-> GenEdAcc(0, <<>>, {}, 0, <<>>),
     mj |-> MajorAcc(0, 0, <<>>, {}, 0, <<>>),
     fe |-> [free_elective_credits |-> 0, free_elective_list |-> <<>>,
             seen_free_electives |-> {}],
     result |-> None]

\* no second analysis
NoCall == [pc |-> "none"]

\* main.rs:116-118: no task was spawned
NoTask == [at |-> "none"]

\* main.rs:49-53: the signals as create_signal leaves them, the file input
\* without a file (input_files), no task
InitialUi ==
    [file_name |-> "", preview_url |-> None, audit_result |-> None,
     is_loading |-> FALSE, error_msg |-> None, input_files |-> None,
     task |-> NoTask]

Init ==
    /\ courses \in Transcripts
    /\ gen_ed \in GenEdCurricula
    /\ major \in MajorCurricula
    /\ pc = "gen_ed_strands"
    /\ strand_i = 1
    /\ ge = GenEdAcc(0, <<>>, {}, 0, <<>>)
    /\ mj = MajorAcc(0, 0, <<>>, {}, 0, <<>>)
    /\ fe = [free_elective_credits |-> 0, free_elective_list |-> <<>>,
             seen_free_electives |-> {}]
    /\ result = None
    /\ call2 = NoCall
    /\ ui = InitialUi

\* one iteration of the loop over curriculum.strands (auditor.rs:32-205)
AtStrand(rule) ==
    /\ pc = "gen_ed_strands"
    /\ strand_i <= Len(gen_ed.strands)
    /\ IF rule \in {"choose_sequential_pair", "choose_one", "choose_all_sub_groups"}
       THEN SelectionRule(gen_ed.strands[strand_i]) = rule
       ELSE SelectionRule(gen_ed.strands[strand_i]) \notin
                {"choose_sequential_pair", "choose_one", "choose_all_sub_groups"}

SequentialPair ==
    /\ AtStrand("choose_sequential_pair")
    /\ ge' = StrandSequentialPair(courses, strand_i, gen_ed.strands[strand_i], ge)
    /\ strand_i' = strand_i + 1
    /\ UNCHANGED <<inputs, pc, mj, fe, result>>

ChooseOne ==
    /\ AtStrand("choose_one")
    /\ ge' = StrandChooseOne(courses, strand_i, gen_ed.strands[strand_i], ge)
    /\ strand_i' = strand_i + 1
    /\ UNCHANGED <<inputs, pc, mj, fe, result>>

ChooseAllSubGroups ==
    /\ AtStrand("choose_all_sub_groups")
    /\ ge' = StrandChooseAllSubGroups(courses, strand_i, gen_ed.strands[strand_i], ge)
    /\ strand_i' = strand_i + 1
    /\ UNCHANGED <<inputs, pc, mj, fe, result>>

ChooseAll ==
    /\ AtStrand("choose_all")
    /\ ge' = StrandChooseAll(courses, strand_i, gen_ed.strands[strand_i], ge)
    /\ strand_i' = strand_i + 1
    /\ UNCHANGED <<inputs, pc, mj, fe, result>>

\* auditor.rs:207-244
GenEdElectives ==
    /\ pc = "gen_ed_strands"
    /\ strand_i > Len(gen_ed.strands)
    /\ ge' = GenEdElectivesStep(courses, gen_ed, ge)
    /\ pc' = "gen_ed_overall"
    /\ UNCHANGED <<inputs, strand_i, mj, fe, result>>

\* auditor.rs:246-263; audit_gen_ed returns, audit_major starts with fresh
\* accumulators (auditor.rs:273-276)
GenEdOverall ==
    /\ pc = "gen_ed_overall"
    /\ ge' = GenEdOverallStep(gen_ed, ge)
    /\ mj' = MajorAcc(0, 0, <<>>, {}, 0, <<>>)
    /\ pc' = "basic_science"
    /\ UNCHANGED <<inputs, strand_i, fe, result>>

\* auditor.rs:278-293
BasicScience ==
    /\ pc = "basic_science"
    /\ mj' = MajorChooseAllLoop(courses, "Basic Science",
                                major.basic_science.courses, 1, mj)
    /\ pc' = "core_courses"
    /\ UNCHANGED <<inputs, strand_i, ge, fe, result>>

\* auditor.rs:295-310
CoreCourses ==
    /\ pc = "core_courses"
    /\ mj' = MajorChooseAllLoop(courses, "Core Courses",
                                major.core_courses.courses, 1, mj)
    /\ pc' = "capstone"
    /\ UNCHANGED <<inputs, strand_i, ge, fe, result>>

\* auditor.rs:312-341
Capstone ==
    /\ pc = "capstone"
    /\ mj' = CapstoneStep(courses, major, mj)
    /\ pc' = "clusters"
    /\ UNCHANGED <<inputs, strand_i, ge, fe, result>>

\* auditor.rs:343-381
Clusters ==
    /\ pc = "clusters"
    /\ mj' = ClustersStep(courses, major, mj)
    /\ pc' = "others"
    /\ UNCHANGED <<inputs, strand_i, ge, fe, result>>

\* mutant: audit_major never gets past the "others" bucket
Others_Stuck ==
    /\ pc = "others"
    /\ mj' = OthersLoop(courses, major.electives.others, 1, mj)
    /\ pc' = "others"
    /\ UNCHANGED <<inputs, strand_i, ge, fe, result>>

\* auditor.rs:383-403; audit_major returns
Others ==
    /\ pc = "others"
    /\ mj' = OthersLoop(courses, major.electives.others, 1, mj)
    /\ pc' = "free_electives"
    /\ UNCHANGED <<inputs, strand_i, ge, fe, result>>

\* main.rs:188-195
FreeElectives ==
    /\ pc = "free_electives"
    /\ \E order \in HashSetIter(mj.used_indices) :
          fe' = calculate_free_electives(courses, Extend(ge.used_indices, order))
    /\ pc' = "aggregate"
    /\ UNCHANGED <<inputs, strand_i, ge, mj, result>>

\* main.rs:197-275
Aggregate ==
    /\ pc = "aggregate"
    /\ result' = Some(BuildResult(courses, gen_ed, major, ge, mj, fe))
    /\ pc' = "done"
    /\ UNCHANGED <<inputs, strand_i, ge, mj, fe>>

Next ==
    \/ SequentialPair
    \/ ChooseOne
    \/ ChooseAllSubGroups
    \/ ChooseAll
    \/ GenEdElectives
    \/ GenEdOverall
    \/ BasicScience
    \/ CoreCourses
    \/ Capstone
    \/ Clusters
    \/ Others
    \/ FreeElectives
    \/ Aggregate

Spec == Init /\ [][Next]_vars

\* The analysis is one task of straight-line calls with no await between
\* them (main.rs:174-275): once started it runs every step it has left.
FairRecords ==
    {ParsedCourse("X", "n1", "A", 3), ParsedCourse("X", "n1", "F", 3),
     ParsedCourse("Z", "n1", "A", 3), ParsedCourse("W", "n1", "A", 3)}

FairTranscripts == UNION {[1..n -> FairRecords] : n \in 0..MaxFairRecords}

InitFair ==
    /\ courses \in FairTranscripts
    /\ gen_ed \in GenEdCurricula
    /\ major \in MajorCurricula
    /\ pc = "gen_ed_strands"
    /\ strand_i = 1
    /\ ge = GenEdAcc(0, <<>>, {}, 0, <<>>)
    /\ mj = MajorAcc(0, 0, <<>>, {}, 0, <<>>)
    /\ fe = [free_elective_credits |-> 0, free_elective_list |-> <<>>,
             seen_free_electives |-> {}]
    /\ result = None
    /\ call2 = NoCall
    /\ ui = InitialUi

FairSpec == InitFair /\ [][Next]_vars /\ WF_vars(Next)

\* ------------------------------------------- two analyses side by side
\* The audit functions are public and take their inputs by shared reference;
\* a second analysis runs them on its own inputs while the first is under
\* way, its steps interleaved with the steps of the first.
CallRecords == {ParsedCourse("X", "n1", "A", 3), ParsedCourse("Z", "n1", "A", 3)}

CallTranscripts == UNION {[1..n -> CallRecords] : n \in 0..MaxCallRecords}

CallGenEdCurricula == {GenEdA, GenEdC}

CallMajorCurricula == {MajorA}

\* the locals of the first analysis
first == <<courses, gen_ed, major, pc, strand_i, ge, mj, fe, result>>

InitCalls ==
    /\ courses \in CallTranscripts
    /\ gen_ed \in CallGenEdCurricula
    /\ major \in CallMajorCurricula
    /\ pc = "gen_ed_strands"
    /\ strand_i = 1
    /\ ge = GenEdAcc(0, <<>>, {}, 0, <<>>)
    /\ mj = MajorAcc(0, 0, <<>>, {}, 0, <<>>)
    /\ fe = [free_elective_credits |-> 0, free_elective_list |-> <<>>,
             seen_free_electives |-> {}]
    /\ result = None
    /\ call2 \in {Locals(cs, g, m, "none") :
                     cs \in CallTranscripts, g \in CallGenEdCurricula,
                     m \in CallMajorCurricula}
    /\ ui = InitialUi

\* the locals of an analysis after one more step of it (the steps are those
\* of the first analysis, on the record c of locals)
CallSteps(c) ==
    CASE c.pc = "gen_ed_strands" /\ c.strand_i <= Len(c.gen_ed.strands) ->
            {[c EXCEPT !.ge = StrandStep(c.courses, c.strand_i,
                                         c.gen_ed.strands[c.strand_i], c.ge),
                       !.strand_i = @ + 1]}
      [] c.pc = "gen_ed_strands" /\ c.strand_i > Len(c.gen_ed.strands) ->
            {[c EXCEPT !.ge = GenEdElectivesStep(c.courses, c.gen_ed, c.ge),
                       !.pc = "gen_ed_overall"]}
      [] c.pc = "gen_ed_overall" ->
            {[c EXCEPT !.ge = GenEdOverallStep(c.gen_ed, c.ge),
                       !.mj = MajorAcc(0, 0, <<>>, {}, 0, <<>>),
                       !.pc = "basic_science"]}
      [] c.pc = "basic_science" ->
            {[c EXCEPT !.mj = MajorChooseAllLoop(c.courses, "Basic Science",
                                  c.major.basic_science.courses, 1, c.mj),
                       !.pc = "core_courses"]}
      [] c.pc = "core_courses" ->
            {[c EXCEPT !.mj = MajorChooseAllLoop(c.courses, "Core Courses",
                                  c.major.core_courses.courses, 1, c.mj),
                       !.pc = "capstone"]}
      [] c.pc = "capstone" ->
            {[c EXCEPT !.mj = CapstoneStep(c.courses, c.major, c.mj),
                       !.pc = "clusters"]}
      [] c.pc = "clusters" ->
            {[c EXCEPT !.mj = ClustersStep(c.courses, c.major, c.mj),
                       !.pc = "others"]}
      [] c.pc = "others" ->
            {[c EXCEPT !.mj = OthersLoop(c.courses, c.major.electives.others, 1, c.mj),
                       !.pc = "free_electives"]}
      [] c.pc = "free_electives" ->
            {[c EXCEPT !.fe = calculate_free_electives(c.courses,
                                  Extend(c.ge.used_indices, order)),
                       !.pc = "aggregate"] :
                order \in HashSetIter(c.mj.used_indices)}
      [] c.pc = "aggregate" ->
            {[c EXCEPT !.result = Some(BuildResult(c.courses, c.gen_ed, c.major,
                                                   c.ge, c.mj, c.fe)),
                       !.pc = "done"]}
      [] OTHER -> {}

\* the second analysis calls audit_gen_ed (auditor.rs:23-30)
StartCall2 ==
    /\ call2.pc = "none"
    /\ call2' = [call2 EXCEPT !.pc = "gen_ed_strands", !.ge = NewGenEdAcc]
    /\ UNCHANGED <<first, ui>>

\* one step of the second analysis
Call2Step ==
    /\ \E c \in CallSteps(call2) : call2' = c
    /\ UNCHANGED <<first, ui>>

NextCalls ==
    \/ Next
    \/ StartCall2
    \/ Call2Step

SpecCalls == InitCalls /\ [][NextCalls]_vars

\* ------------------------------------------------------------- the page
\* App (main.rs:45-297): the user picks or drops a file and starts the
\* analysis; the analysis runs as a task spawned by the click handler.
\* A PDF file: its name and the records its text parses to.
PdfFile(name, cs) == [name |-> name, courses |-> cs]

PdfFiles ==
    {PdfFile("a.pdf", <<ParsedCourse("X", "n1", "A", 3)>>),
     PdfFile("b.pdf", <<ParsedCourse("W", "n1", "A", 3),
                        ParsedCourse("W", "n1", "A", 3)>>)}

\* the variables of the audit
audit == <<first, call2>>

\* the page as it is mounted; the curricula are those of
\* get_gen_ed_curriculum() and get_major_curriculum()
InitUI ==
    /\ courses = <<>>
    /\ gen_ed = GenEdD
    /\ major = MajorA
    /\ pc = "gen_ed_strands"
    /\ strand_i = 1
    /\ ge = NewGenEdAcc
    /\ mj = MajorAcc(0, 0, <<>>, {}, 0, <<>>)
    /\ fe = [free_elective_credits |-> 0, free_elective_list |-> <<>>,
             seen_free_electives |-> {}]
    /\ result = None
    /\ call2 = NoCall
    /\ ui = InitialUi

\* the audit runs from main.rs:174 to 275 without an await: no event
\* handler runs in between
EventLoopFree == ui.task.at # "auditing"

\* main.rs:56-73: the change event of the file input; the element holds the
\* chosen file, or none after a cancelled dialog
on_file_change ==
    /\ EventLoopFree
    /\ \E files \in {None} \cup {Some(f) : f \in PdfFiles}, url_ok \in BOOLEAN :
          ui' = IF IsSome(files)
                THEN [ui EXCEPT !.input_files = files,
                                !.file_name = Unwrap(files).name,
                                !.preview_url = IF url_ok THEN Some(Unwrap(files).name)
                                                ELSE @]
                ELSE [ui EXCEPT !.input_files = files]
    /\ UNCHANGED audit

\* main.rs:79-95: a file dropped on the drop zone; the file input element
\* keeps what it holds
on_drop ==
    /\ EventLoopFree
    /\ \E file \in PdfFiles, url_ok \in BOOLEAN :
          ui' = [ui EXCEPT !.file_name = file.name,
                           !.preview_url = IF url_ok THEN Some(file.name) ELSE @]
    /\ UNCHANGED audit

\* main.rs:98-118 and 374-378: a click on the enabled button; the handler
\* reads the file from the #file-input element and spawns the task only if
\* the element holds one
on_start_analysis ==
    /\ EventLoopFree
    /\ ~(ui.file_name = "" \/ ui.is_loading)
    /\ ui' = [ui EXCEPT !.is_loading = TRUE,
                        !.audit_result = None,
                        !.error_msg = None,
                        !.task = IF IsSome(ui.input_files)
                                 THEN [at |-> "spawned", file |-> Unwrap(ui.input_files)]
                                 ELSE @]
    /\ UNCHANGED audit

\* the four error exits of the task (main.rs:156-162, 276-291)
Failed(msg) ==
    [ui EXCEPT !.is_loading = FALSE, !.error_msg = Some(msg), !.task = NoTask]

\* main.rs:119-162: the task runs up to its first await; read_as_array_buffer
\* can fail at once
ReadStarted ==
    /\ ui.task.at = "spawned"
    /\ \E ok \in BOOLEAN :
          ui' = IF ok THEN [ui EXCEPT !.task.at = "reading"]
                ELSE Failed("Failed to read the PDF file. Please try again.")
    /\ UNCHANGED audit

\* main.rs:165-170, 287-291: the FileReader promise settles
FileRead ==
    /\ ui.task.at = "reading"
    /\ \E ok \in BOOLEAN :
          ui' = IF ok THEN [ui EXCEPT !.task.at = "extracting"]
                ELSE Failed("Failed to read the uploaded file.")
    /\ UNCHANGED audit

\* main.rs:171-177: the extraction promise resolves to a string; the text is
\* parsed and the audit starts
TextExtracted ==
    /\ ui.task.at = "extracting"
    /\ ui' = [ui EXCEPT !.task.at = "auditing"]
    /\ courses' = ui.task.file.courses
    /\ pc' = "gen_ed_strands"
    /\ strand_i' = 1
    /\ ge' = NewGenEdAcc
    /\ mj' = MajorAcc(0, 0, <<>>, {}, 0, <<>>)
    /\ fe' = [free_elective_credits |-> 0, free_elective_list |-> <<>>,
              seen_free_electives |-> {}]
    /\ result' = None
    /\ UNCHANGED <<gen_ed, major, call2>>

\* main.rs:276-285: the extraction promise resolves to something that is
\* not a string, or is rejected
ExtractionFailed ==
    /\ ui.task.at = "extracting"
    /\ \E rejected \in BOOLEAN :
          ui' = IF rejected
                THEN Failed("PDF extraction failed. The file may be corrupted or encrypted.")
                ELSE Failed("Could not extract text from the PDF. Make sure it's a valid transcript.")
    /\ UNCHANGED audit

\* main.rs:179-272: the steps of the audit, inside the task
Audit ==
    /\ ui.task.at = "auditing"
    /\ Next

\* main.rs:274-275: the result is shown
AuditShown ==
    /\ ui.task.at = "auditing"
    /\ pc = "done"
    /\ ui' = [ui EXCEPT !.is_loading = FALSE, !.audit_result = result,
                        !.task = NoTask]
    /\ UNCHANGED audit

\* the steps of the spawned task
Task ==
    \/ ReadStarted
    \/ FileRead
    \/ TextExtracted
    \/ ExtractionFailed
    \/ Audit
    \/ AuditShown

NextUI ==
    \/ on_file_change
    \/ on_drop
    \/ on_start_analysis
    \/ ReadStarted
    \/ FileRead
    \/ TextExtracted
    \/ ExtractionFailed
    \/ Audit
    \/ AuditShown

\* the browser runs a spawned task and settles its promises; the user is
\* under no obligation
UISpec == InitUI /\ [][NextUI]_vars /\ WF_vars(Task)

\* ------------------------------------------------------------ the claims
MinCredit(a, b) == IF a < b THEN a ELSE b

Passing(i) == courses[i].grade \in PassingGrades

\* some record outside `used` has this code and a passing grade
HasMatch(used, code) ==
    \E i \in 1..Len(courses) : i \notin used /\ courses[i].code = code /\ Passing(i)

LogIdx(log) == {log[k].idx : k \in 1..Len(log)}

UsedBefore(log, k) == {log[j].idx : j \in 1..(k - 1)}

GenEdUsed == ge.used_indices

MajorUsed == mj.used_indices

FreeCounted == {fe.free_elective_list[k].idx : k \in 1..Len(fe.free_elective_list)}

RECURSIVE SumCapped(_)
SumCapped(log) ==
    IF log = <<>> THEN 0
    ELSE MinCredit(Head(log).declared, courses[Head(log).idx].parsed_credit)
           + SumCapped(Tail(log))

\* C1: no record index belongs to more than one of the GenEd-used set, the
\* Major-used set and the set of records counted as free electives; the Major
\* allocator excludes the indices the GenEd allocator consumed.
C1_AtMostOnce ==
    /\ GenEdUsed \cap MajorUsed = {}
    /\ GenEdUsed \cap FreeCounted = {}
    /\ MajorUsed \cap FreeCounted = {}

OptionsOf(strand) == IF IsSome(strand.courses) THEN Unwrap(strand.courses) ELSE <<>>

\* a ChooseOne step from (used, credits) to (used2, credits2) over `list`:
\* nothing is consumed when no option has a match; otherwise exactly one
\* record is consumed, it carries the code of the first option in declared
\* order that has a match, and its capped credit is the only credit added
FirstOptionOnly(list, used, used2, credits, credits2) ==
    LET have == {k \in 1..Len(list) : HasMatch(used, list[k].code)}
    IN  IF have = {}
        THEN used2 = used /\ credits2 = credits
        ELSE \E i \in 1..Len(courses) :
                /\ i \notin used
                /\ Passing(i)
                /\ courses[i].code = list[MinOf(have)].code
                /\ used2 = used \cup {i}
                /\ credits2 = credits + MinCredit(list[MinOf(have)].credits,
                                                  courses[i].parsed_credit)

\* C3: a ChooseOne strand and the Capstone each consume at most one record
\* and award credit for zero or one course; the option awarded is the first
\* in declared order that has a match, no later option's record is consumed.
C3_ChooseOneFirstOption ==
    [][/\ ChooseOne =>
            /\ FirstOptionOnly(OptionsOf(gen_ed.strands[strand_i]),
                               ge.used_indices, ge'.used_indices,
                               ge.completed_credits, ge'.completed_credits)
            /\ Len(ge'.log) <= Len(ge.log) + 1
       /\ Capstone =>
            /\ FirstOptionOnly(major.capstone.options,
                               mj.used_indices, mj'.used_indices,
                               mj.completed_credits, mj'.completed_credits)
            /\ Len(mj'.log) <= Len(mj.log) + 1]_vars

\* C3 witness: the capstone has just been awarded to its first option while
\* a later option still has an unused passing record, and a ChooseOne strand
\* was awarded to an option while a later option had an unused passing record.
C3_Witness ==
    /\ pc = "clusters"
    /\ \E k \in 1..Len(mj.log) :
          /\ mj.log[k].kind = "Capstone"
          /\ \E o \in (mj.log[k].pos + 1)..Len(major.capstone.options) :
                HasMatch(mj.used_indices, major.capstone.options[o].code)
    /\ \E k \in 1..Len(ge.log) :
          /\ ge.log[k].kind = "choose_one"
          /\ LET list == OptionsOf(gen_ed.strands[ge.log[k].pos])
             IN  \E o \in 1..Len(list) :
                    /\ list[o].code # ge.log[k].code
                    /\ HasMatch(UsedBefore(ge.log, k + 1), list[o].code)

\* C4: a ChooseSequentialPair strand adds either 0 or 2 record indices to
\* the used set, and adds credit only when it added 2.
C4_PairZeroOrTwo ==
    [][SequentialPair =>
         LET new == ge'.used_indices \ ge.used_indices
         IN  /\ Cardinality(new) \in {0, 2}
             /\ ge'.completed_credits # ge.completed_credits
                    => Cardinality(new) = 2]_vars

\* the declared sequence groups of a strand (none when absent)
GroupsOf(strand) ==
    IF IsSome(strand.sequence_groups) THEN Unwrap(strand.sequence_groups) ELSE <<>>

\* the credit the strand declares for a code
DeclaredIn(list, code) ==
    list[MinOf({k \in 1..Len(list) : list[k].code = code})].credits

\* C5: the pairs are tried in declared order and the first pair whose two
\* codes both have an unused passing record is consumed, with both capped
\* credits awarded and no missing entry; a pair with one half present
\* consumes nothing; when no pair is full nothing is consumed.
C5_FirstFullPair ==
    [][SequentialPair =>
         LET strand == gen_ed.strands[strand_i]
             groups == GroupsOf(strand)
             used   == ge.used_indices
             full   == {k \in 1..Len(groups) :
                          /\ Len(groups[k]) = 2
                          /\ HasMatch(used, groups[k][1])
                          /\ HasMatch(used, groups[k][2])}
         IN  IF full = {}
             THEN /\ ge'.used_indices = used
                  /\ ge'.completed_credits = ge.completed_credits
             ELSE LET pair == groups[MinOf(full)]
                  IN  /\ \E i, j \in 1..Len(courses) :
                            /\ i \notin used /\ Passing(i) /\ courses[i].code = pair[1]
                            /\ j \notin used /\ Passing(j) /\ courses[j].code = pair[2]
                            /\ ge'.used_indices = used \cup {i, j}
                            /\ ge'.completed_credits = ge.completed_credits
                                 + MinCredit(DeclaredIn(OptionsOf(strand), pair[1]),
                                             courses[i].parsed_credit)
                                 + MinCredit(DeclaredIn(OptionsOf(strand), pair[2]),
                                             courses[j].parsed_credit)
                      /\ ge'.missing_courses = ge.missing_courses]_vars

\* C5 witness: groups [[X,Y],[Y,Z]], Y and Z passing and X absent; the
\* strand has been processed, [Y,Z] is consumed and nothing is missing.
C5_Witness ==
    /\ gen_ed = GenEdB
    /\ pc = "gen_ed_strands"
    /\ strand_i = 2
    /\ ~HasMatch({}, "X")
    /\ {courses[i].code : i \in ge.used_indices} = {"Y", "Z"}
    /\ Cardinality(ge.used_indices) = 2
    /\ ge.completed_credits = 4
    /\ ge.missing_courses = <<>>

\* the final AuditResult
Final == Unwrap(result)

\* the entries of a missing list whose category is in a set, in order
OfCategory(missing, cats) == SelectSeq(missing, LAMBDA m : m.category \in cats)

\* C6: in the final AuditResult, when the GenEd collected credits reach the
\* GenEd total required credits, missing_subjects holds no "General
\* Education" entry.
C6_Suppression ==
    pc = "done" =>
        (Final.categories[1].collected_credits >= Final.categories[1].required_credits
            => OfCategory(Final.missing_subjects, {"General Education"}) = <<>>)

\* C6 witness: the total is met although audit_gen_ed reported entries.
C6_Witness ==
    /\ pc = "done"
    /\ Final.categories[1].collected_credits >= Final.categories[1].required_credits
    /\ ge.missing_courses # <<>>

MajorRequired == {"Basic Science", "Core Courses", "Capstone"}

\* C7: every Basic Science, Core Courses and Capstone entry produced by
\* audit_major is in the final missing_subjects, unaltered and in the same
\* order, whatever the aggregate credit totals.
C7_MajorNeverSuppressed ==
    pc = "done" =>
        OfCategory(Final.missing_subjects, MajorRequired)
            = OfCategory(mj.missing_courses, MajorRequired)

\* C7 witness: GenEd entries were suppressed and the Major total is met,
\* while a Capstone entry is still reported.
C7_Witness ==
    /\ pc = "done"
    /\ ge.missing_courses # <<>>
    /\ OfCategory(Final.missing_subjects, {"General Education"}) = <<>>
    /\ Final.categories[2].collected_credits >= Final.categories[2].required_credits
    /\ OfCategory(Final.missing_subjects, MajorRequired) # <<>>

\* the records the free-elective collector handles: passing and consumed by
\* neither allocator
Handled == {i \in 1..Len(courses) : Passing(i) /\ i \notin GenEdUsed \cup MajorUsed}

KeyOf(i) == free_elective_dedupe_key(courses[i].code, courses[i].name)

\* the first handled record, in document order, of each dedupe key
FirstOfKey == {i \in Handled : \A j \in Handled : KeyOf(j) = KeyOf(i) => i <= j}

FreeDone == pc \in {"aggregate", "done"}

RECURSIVE SumListed(_)
SumListed(list) ==
    IF list = <<>> THEN 0 ELSE Head(list).credits + SumListed(Tail(list))

\* C8: handled records sharing a dedupe key contribute exactly one
\* free-elective entry and one credit amount: the first in document order is
\* listed and credited, every later one is neither listed, credited nor used.
C8_FreeDedupe ==
    FreeDone =>
        /\ \A i \in Handled :
              LET same == {j \in Handled : KeyOf(j) = KeyOf(i)}
                  ents == {k \in 1..Len(fe.free_elective_list) :
                              fe.free_elective_list[k].idx \in same}
              IN  /\ Cardinality(ents) = 1
                  /\ \A k \in ents :
                        /\ fe.free_elective_list[k].idx = MinOf(same)
                        /\ fe.free_elective_list[k].credits
                              = courses[MinOf(same)].parsed_credit
        /\ fe.free_elective_credits = SumListed(fe.free_elective_list)
        /\ FreeCounted \subseteq Handled

\* C8 witness: two handled records share a key and differ in credit.
C8_Witness ==
    /\ pc = "aggregate"
    /\ \E i, j \in Handled :
          /\ i < j
          /\ KeyOf(i) = KeyOf(j)
          /\ courses[i].parsed_credit # courses[j].parsed_credit

\* C9: the free-elective total is the sum of the raw parsed credits of the
\* first record per dedupe key among the passing records in neither used set.
C9_FreeRawCredit ==
    FreeDone =>
        /\ FreeCounted = FirstOfKey
        /\ fe.free_elective_credits = SumParsed(courses, FirstOfKey)

\* every course a curriculum declares
CoursesOfStrand(strand) ==
    Range(OptionsOf(strand))
      \cup (IF IsSome(strand.sub_groups)
            THEN UNION {Range(sg.courses) : sg \in Range(Unwrap(strand.sub_groups))}
            ELSE {})

CurriculumCourses ==
    UNION {CoursesOfStrand(st) : st \in Range(gen_ed.strands)}
      \cup UNION {Range(sc.courses) : sc \in Range(gen_ed.electives.sub_categories)}
      \cup Range(major.basic_science.courses)
      \cup Range(major.core_courses.courses)
      \cup Range(major.capstone.options)
      \cup UNION {Range(c.courses) : c \in Range(Flatten(major.electives.domains))}
      \cup Range(major.electives.others)

CurriculumCodes == {c.code : c \in CurriculumCourses}

\* C9 witness: a record whose code a curriculum declares with fewer credits
\* than the transcript shows is counted as a free elective, and a duplicate
\* of a counted record is dropped.
C9_Witness ==
    /\ pc = "aggregate"
    /\ \E i \in FreeCounted :
          \E c \in CurriculumCourses :
              c.code = courses[i].code /\ c.credits < courses[i].parsed_credit
    /\ Handled # FirstOfKey

\* the transcript without its i-th record
RemoveAt(cs, i) == SubSeq(cs, 1, i - 1) \o SubSeq(cs, i + 1, Len(cs))

\* the "Free Electives" bucket of the final result
FreeBucket == Final.categories[3].courses

\* the entries of the bucket that show record i
ShownAt(i) == {k \in 1..Len(FreeBucket) : FreeBucket[k].idx = i}

\* C10 as stated: every passing record that no structured requirement
\* consumed appears exactly once in the Free Electives bucket with its
\* parsed credit.
C10_EveryUnconsumedShown ==
    pc = "done" =>
        \A i \in Handled :
            /\ Cardinality(ShownAt(i)) = 1
            /\ \A k \in ShownAt(i) : FreeBucket[k].credit = courses[i].parsed_credit

\* C10 amended: a passing unconsumed record appears exactly once in the
\* Free Electives bucket, with its parsed credit, when it is the first such
\* record of its dedupe key, and not at all when it is a later one; a passing
\* record whose code is in no curriculum is never consumed and leaves the
\* missing list as it is without that record.
C10_FirstOfKeyShown ==
    pc = "done" =>
        /\ \A i \in FirstOfKey :
              /\ Cardinality(ShownAt(i)) = 1
              /\ \A k \in ShownAt(i) : FreeBucket[k].credit = courses[i].parsed_credit
        /\ \A i \in Handled \ FirstOfKey : ShownAt(i) = {}
        /\ \A i \in 1..Len(courses) :
              (Passing(i) /\ courses[i].code \notin CurriculumCodes) =>
                  /\ i \in Handled
                  /\ Final.missing_subjects
                       = Analysis(RemoveAt(courses, i), gen_ed, major).missing_subjects

\* C10 witness: a passing 3-credit record whose code is in no curriculum is
\* shown once with 3 credits, and a later record with its key is not shown.
C10_Witness ==
    /\ pc = "done"
    /\ \E i \in FirstOfKey :
          /\ courses[i].code \notin CurriculumCodes
          /\ courses[i].parsed_credit = 3
          /\ \E k \in ShownAt(i) : FreeBucket[k].credit = 3
          /\ \E j \in Handled \ FirstOfKey : KeyOf(j) = KeyOf(i) /\ ShownAt(j) = {}

\* ---------------------------------------------------------------- C11
AfterMajor == pc \in {"free_electives", "aggregate", "done"}

\* the awards of a log whose kind is in a set, in order
OfKind(log, kinds) == SelectSeq(log, LAMBDA a : a.kind \in kinds)

RECURSIVE SumCredit(_)
\* the credit a sequence of awards added
SumCredit(log) ==
    IF log = <<>> THEN 0 ELSE Head(log).credit + SumCredit(Tail(log))

OtherCodes == {c.code : c \in Range(major.electives.others)}

\* the records a major requirement ahead of the "others" bucket consumed
EarlierMajorUsed ==
    LogIdx(OfKind(mj.log, {"Basic Science", "Core Courses", "Capstone", "cluster"}))

\* the passing records with an "other" code that no earlier major
\* requirement consumed
OthersOwed ==
    {i \in 1..Len(courses) :
        Passing(i) /\ courses[i].code \in OtherCodes /\ i \notin EarlierMajorUsed}

RECURSIVE SumOthersCapped(_)
\* sum over a set of records of min(declared "other" credit, parsed credit)
SumOthersCapped(S) ==
    IF S = {} THEN 0
    ELSE LET i == MinOf(S)
         IN  MinCredit(DeclaredIn(major.electives.others, courses[i].code),
                       courses[i].parsed_credit)
               + SumOthersCapped(S \ {i})

\* C11: after audit_major every passing record whose code is an "other" code
\* and that no earlier major requirement consumed is in the Major-used set,
\* was consumed by the "others" bucket exactly once, and has added its capped
\* credit to the elective credits.
C11_OthersGreedy ==
    AfterMajor =>
        LET others == OfKind(mj.log, {"others"})
        IN  /\ OthersOwed \subseteq MajorUsed
            /\ LogIdx(others) = OthersOwed
            /\ Len(others) = Cardinality(OthersOwed)
            /\ mj.elective_credits
                  = SumCredit(OfKind(mj.log, {"cluster"})) + SumOthersCapped(OthersOwed)

\* C11 witness: two passing 3-credit records carry the same "other" code
\* (declared with 3 credits); both are consumed by the bucket, +6.
C11_Witness ==
    /\ pc = "free_electives"
    /\ \E i, j \in LogIdx(OfKind(mj.log, {"others"})) :
          /\ i < j
          /\ courses[i].code = courses[j].code
          /\ courses[i].parsed_credit = 3 /\ courses[j].parsed_credit = 3
          /\ DeclaredIn(major.electives.others, courses[i].code) = 3
    /\ SumCredit(OfKind(mj.log, {"others"})) = 6

\* ---------------------------------------------------------------- C12
AfterClusters == pc \in {"others", "free_electives", "aggregate", "done"}

AllClusters == Flatten(major.electives.domains)

\* the listed courses of a cluster (by position) that have a passing record
\* anywhere in the transcript
FoundIn(cluster) ==
    {k \in 1..Len(cluster.courses) : HasMatch({}, cluster.courses[k].code)}

CompletedClusters ==
    {c \in 1..Len(AllClusters) :
        Cardinality(FoundIn(AllClusters[c])) >= AllClusters[c].min_courses}

\* the awards of a log that went to record i
AwardsTo(log, i) == {k \in 1..Len(log) : log[k].idx = i}

\* C12: a cluster counts as completed exactly when the number of its listed
\* courses that have a passing record anywhere in the transcript, consumed or
\* not, is at least min_courses; a record counts towards every cluster that
\* lists its code, while audit_major awards its credit at most once.
C12_ClusterCompletion ==
    AfterClusters =>
        /\ mj.completed_clusters_count = Cardinality(CompletedClusters)
        /\ \A i \in 1..Len(courses) : Cardinality(AwardsTo(mj.log, i)) <= 1

\* C12 witness: one passing record whose code two clusters list; both
\* clusters are completed, the record was awarded once, by the first of them.
C12_Witness ==
    /\ pc = "others"
    /\ \E i \in 1..Len(courses) :
          \E c, d \in CompletedClusters :
              /\ c < d
              /\ \A j \in 1..Len(courses) : courses[j].code = courses[i].code => j = i
              /\ courses[i].code \in {x.code : x \in Range(AllClusters[c].courses)}
              /\ courses[i].code \in {x.code : x \in Range(AllClusters[d].courses)}
              /\ \E k \in AwardsTo(mj.log, i) :
                    mj.log[k].kind = "cluster" /\ mj.log[k].pos = c
              /\ Cardinality(AwardsTo(mj.log, i)) = 1
    /\ mj.completed_clusters_count >= 2

\* ---------------------------------------------------------------- C13
\* the entries a sequence gained
Suffix(old, new) == SubSeq(new, Len(old) + 1, Len(new))

\* the positions of a list that declare a code
Listing(list, code) == {k \in 1..Len(list) : list[k].code = code}

\* the lowest-index record outside `used` with this code and a passing grade
LowestMatch(used, code) ==
    MinOf({i \in 1..Len(courses) :
              i \notin used /\ courses[i].code = code /\ Passing(i)})

RECURSIVE SumListCapped(_, _, _)
\* sum over the listed courses of min(declared credit, parsed credit of the
\* record the course matches)
SumListCapped(list, used, k) ==
    IF k > Len(list) THEN 0
    ELSE MinCredit(list[k].credits,
                   courses[LowestMatch(used, list[k].code)].parsed_credit)
           + SumListCapped(list, used, k + 1)

\* a ChooseAll step over `list`, from accumulator a to accumulator b
EveryListedCourse(list, a, b) ==
    LET awards  == Suffix(a.log, b.log)
        entries == Suffix(a.missing_courses, b.missing_courses)
        used    == a.used_indices
    IN  /\ SubSeq(b.log, 1, Len(a.log)) = a.log
        /\ SubSeq(b.missing_courses, 1, Len(a.missing_courses)) = a.missing_courses
        /\ Len(awards) + Len(entries) = Len(list)
        /\ b.used_indices = used \cup LogIdx(awards)
        /\ Cardinality(LogIdx(awards)) = Len(awards)
        /\ \A k \in 1..Len(awards) :
              /\ awards[k].idx \notin used
              /\ Passing(awards[k].idx)
              /\ courses[awards[k].idx].code = awards[k].code
        /\ \A c \in {list[k].code : k \in 1..Len(list)} :
              LET named == {k \in 1..Len(entries) :
                              entries[k].description.options = <<<<c>>>>}
                  given == {k \in 1..Len(awards) : awards[k].code = c}
              IN  /\ Cardinality(named) + Cardinality(given)
                        = Cardinality(Listing(list, c))
                  /\ named # {} => ~HasMatch(b.used_indices, c)
        /\ b.completed_credits = a.completed_credits + SumCapped(awards)
        /\ (\A k \in 1..Len(list) :
                HasMatch(used, list[k].code) /\ Listing(list, list[k].code) = {k})
              => /\ entries = <<>>
                 /\ b.completed_credits
                       = a.completed_credits + SumListCapped(list, used, 1)

\* C13: in a GenEd ChooseAll strand, in Basic Science and in Core Courses
\* every listed course either consumes one unused passing record with equal
\* code or produces exactly one missing entry naming that course: matched
\* courses plus missing entries equal the listed courses, and when every
\* listed course has a record the credits are the sum of the capped credits
\* and no entry is added.
C13_ChooseAllEveryCourse ==
    [][/\ ChooseAll =>
            EveryListedCourse(OptionsOf(gen_ed.strands[strand_i]), ge, ge')
       /\ BasicScience =>
            EveryListedCourse(major.basic_science.courses, mj, mj')
       /\ CoreCourses =>
            EveryListedCourse(major.core_courses.courses, mj, mj')]_vars

\* C13 witness: the ChooseAll strand of two courses (3cr + 1cr) has been
\* processed with both present and passing: +4 credits, no missing entry.
C13_Witness ==
    /\ gen_ed = GenEdA
    /\ pc = "gen_ed_strands"
    /\ strand_i = 2
    /\ Len(OfKind(ge.log, {"choose_all"})) = 2
    /\ ge.completed_credits = 4
    /\ ge.missing_courses = <<>>

\* ---------------------------------------------------------------- C14
\* the strands audit_gen_ed has gone through
ProcessedStrands ==
    1..(IF pc = "gen_ed_strands" THEN strand_i - 1 ELSE Len(gen_ed.strands))

\* the GenEd missing entries of one format for a strand / sub-group
MissingAt(kind, pos, sub) ==
    {k \in 1..Len(ge.missing_courses) :
        /\ ge.missing_courses[k].description.kind = kind
        /\ ge.missing_courses[k].description.pos = pos
        /\ ge.missing_courses[k].description.sub = sub}

SubGroupsOf(strand) ==
    IF IsSome(strand.sub_groups) THEN Unwrap(strand.sub_groups) ELSE <<>>

AfterCapstone ==
    pc \in {"clusters", "others", "free_electives", "aggregate", "done"}

\* C14: a requirement whose option or course list is empty or absent is
\* reported as unmet: a ChooseOne strand without options and a
\* ChooseSequentialPair strand without pairs each have their missing entry, a
\* sub-group without courses has its missing entry, the Capstone without
\* options has its missing entry, and a cluster without courses is not
\* counted as completed.
C14_EmptyUnsatisfiable ==
    /\ \A s \in ProcessedStrands :
          LET strand == gen_ed.strands[s]
              rule   == SelectionRule(strand)
          IN  /\ (rule = "choose_one" /\ OptionsOf(strand) = <<>>)
                    => Cardinality(MissingAt("choose 1", s, 0)) = 1
              /\ (rule = "choose_sequential_pair" /\ PairText(GroupsOf(strand)) = <<>>)
                    => Cardinality(MissingAt("choose one pair", s, 0)) = 1
              /\ rule = "choose_all_sub_groups"
                    => \A g \in 1..Len(SubGroupsOf(strand)) :
                          SubGroupsOf(strand)[g].courses = <<>>
                            => Cardinality(MissingAt("sub_group missing credits", s, g)) = 1
    /\ (AfterCapstone /\ major.capstone.options = <<>>)
          => Len(OfCategory(mj.missing_courses, {"Capstone"})) = 1
    /\ AfterClusters
          => mj.completed_clusters_count
               <= Cardinality({c \in 1..Len(AllClusters) : AllClusters[c].courses # <<>>})

\* ---------------------------------------------------------------- C15
SameInputs ==
    /\ call2.courses = courses
    /\ call2.gen_ed = gen_ed
    /\ call2.major = major

C16_NonInterference ==
    /\ pc = "done" =>
          /\ result = Some(Analysis(courses, gen_ed, major))
          /\ ge.used_indices = audit_gen_ed(courses, gen_ed).used_indices
          /\ mj.used_indices = audit_major(courses, major).used_indices
    /\ call2.pc = "done" =>
          /\ call2.result
                = Some(Analysis(call2.courses, call2.gen_ed, call2.major))
          /\ call2.ge.used_indices
                = audit_gen_ed(call2.courses, call2.gen_ed).used_indices
          /\ call2.mj.used_indices
                = audit_major(call2.courses, call2.major).used_indices

\* C16 witness: the second analysis is over while the first, on another
\* transcript, is in the middle of audit_major; both have consumed records and
\* their used sets differ.
C16_Witness ==
    /\ pc = "capstone"
    /\ call2.pc = "done"
    /\ call2.courses # courses
    /\ ge.used_indices # {}
    /\ call2.ge.used_indices # {}
    /\ call2.ge.used_indices # ge.used_indices
    /\ call2.result = Some(Analysis(call2.courses, call2.gen_ed, call2.major))

\* ---------------------------------------------------------------- C17
\* C17: total_credits of the AuditResult is GenEd credits + Major structured
\* credits + Major elective credits + free-elective credits; the collected
\* credits of the three categories are the GenEd credits, the Major credits
\* with the electives and the free-elective credits, and sum to total_credits.
C17_TotalIsSum ==
    pc = "done" =>
        /\ Len(Final.categories) = 3
        /\ Final.total_credits
              = ge.completed_credits + mj.completed_credits
                  + mj.elective_credits + fe.free_elective_credits
        /\ Final.categories[1].collected_credits = ge.completed_credits
        /\ Final.categories[2].collected_credits
              = mj.completed_credits + mj.elective_credits
        /\ Final.categories[3].collected_credits = fe.free_elective_credits
        /\ Final.total_credits
              = Final.categories[1].collected_credits
                  + Final.categories[2].collected_credits
                  + Final.categories[3].collected_credits

\* C17 witness: a result to which all four sources contributed credit.
C17_Witness ==
    /\ pc = "done"
    /\ ge.completed_credits > 0
    /\ mj.completed_credits > 0
    /\ mj.elective_credits > 0
    /\ fe.free_elective_credits > 0
    /\ Final.total_credits
          = ge.completed_credits + mj.completed_credits
              + mj.elective_credits + fe.free_elective_credits

\* ---------------------------------------------------------------- C18
\* C18: for every record sequence and every curriculum the three audit
\* functions run to their end and a result is returned: the analysis reaches
\* its last position with an AuditResult set, whatever codes the transcript
\* holds.
C18_Terminates == <>(pc = "done" /\ IsSome(result))

\* C18 witness: an analysis is over whose transcript holds a passing record
\* with a code no curriculum declares, a failed record, and a declared course
\* without a record: they ended as a free elective, as nothing, and as a
\* missing entry.
C18_Witness ==
    /\ pc = "done"
    /\ IsSome(result)
    /\ \E i \in 1..Len(courses) :
          courses[i].code \notin CurriculumCodes /\ i \in FreeCounted
    /\ \E i \in 1..Len(courses) : ~Passing(i)
    /\ Final.missing_subjects # <<>>

\* ---------------------------------------------------------------- C19
\* the used set the lookup of award k was made against: the indices consumed
\* before it (the two halves of a pair are looked up before either is
\* inserted)
UsedAtLookup(log, k) ==
    IF log[k].kind = "choose_sequential_pair"
    THEN UsedBefore(log, MinOf({j \in 1..k : /\ log[j].kind = log[k].kind
                                               /\ log[j].pos = log[k].pos}))
    ELSE UsedBefore(log, k)

\* every award went to the lowest-index record that was outside the used
\* set, carried the code of the requirement and had a passing grade
LowestIndexRule(log) ==
    \A k \in 1..Len(log) :
        /\ HasMatch(UsedAtLookup(log, k), log[k].code)
        /\ log[k].idx = LowestMatch(UsedAtLookup(log, k), log[k].code)

\* C19: whenever a requirement for a code consumes a record, that record is
\* the lowest-index record, in document order, that is not yet in the used
\* set, has the code and has a passing grade; no step of the audit removes an
\* index from a used set.
C19_LowestIndexFirst ==
    [][/\ LowestIndexRule(ge'.log)
       /\ LowestIndexRule(mj'.log)
       /\ LogIdx(ge'.log) = ge'.used_indices
       /\ LogIdx(mj'.log) = mj'.used_indices
       /\ ge.used_indices \subseteq ge'.used_indices
       /\ mj.used_indices \subseteq mj'.used_indices]_vars

\* C19 witness: a record was consumed that has before it a failed record of
\* the same code and after it a passing record of the same code that was
\* unused at that moment.
C19_Witness ==
    \E k \in 1..Len(ge.log) :
        /\ \E i \in 1..(ge.log[k].idx - 1) :
              courses[i].code = ge.log[k].code /\ ~Passing(i)
        /\ \E j \in (ge.log[k].idx + 1)..Len(courses) :
              /\ courses[j].code = ge.log[k].code
              /\ Passing(j)
              /\ j \notin UsedAtLookup(ge.log, k)

\* ---------------------------------------------------------------- C20
\* the awards of sub-group g of strand s, in the order they were made
SubGroupAwards(s, g) ==
    SelectSeq(ge.log, LAMBDA a : /\ a.kind = "choose_all_sub_groups"
                                 /\ a.pos = s
                                 /\ a.sub = g)

\* C20: in a ChooseAllSubGroups strand no record is consumed for a sub-group
\* whose accumulated credit before that match had already reached its
\* required_credits.
C20_SubGroupStops ==
    \A s \in ProcessedStrands :
        SelectionRule(gen_ed.strands[s]) = "choose_all_sub_groups" =>
            \A g \in 1..Len(SubGroupsOf(gen_ed.strands[s])) :
                LET awards == SubGroupAwards(s, g)
                IN  \A k \in 1..Len(awards) :
                        SumCredit(SubSeq(awards, 1, k - 1))
                            < SubGroupsOf(gen_ed.strands[s])[g].required_credits

\* C20 witness: a sub-group reached its required credits with its first
\* listed course; its second listed course has an unused passing record,
\* which the sub-group left alone.
C20_Witness ==
    /\ pc = "gen_ed_strands"
    /\ \E s \in ProcessedStrands :
          /\ s = strand_i - 1
          /\ SelectionRule(gen_ed.strands[s]) = "choose_all_sub_groups"
          /\ \E g \in 1..Len(SubGroupsOf(gen_ed.strands[s])) :
                LET sg == SubGroupsOf(gen_ed.strands[s])[g]
                IN  /\ Len(sg.courses) >= 2
                    /\ Len(SubGroupAwards(s, g)) = 1
                    /\ SubGroupAwards(s, g)[1].code = sg.courses[1].code
                    /\ SumCredit(SubGroupAwards(s, g)) >= sg.required_credits
                    /\ HasMatch(ge.used_indices, sg.courses[2].code)

\* ---------------------------------------------------------------- C21
\* the records the strands had consumed when sub-group g of strand s was done
UsedUpTo(s, g) ==
    {ge.log[k].idx : k \in {j \in 1..Len(ge.log) :
        /\ ge.log[j].kind # "gen_ed_elective"
        /\ \/ ge.log[j].pos < s
           \/ ge.log[j].pos = s /\ ge.log[j].sub <= g}}

\* C21: in a ChooseAllSubGroups strand each sub-group whose accumulated
\* credit is below its required_credits yields exactly one missing entry,
\* stating the remaining deficit and the listed options, each sub-group that
\* met its requirement yields none, and every sub-group is matched whatever
\* the earlier ones reached: a sub-group that stayed short has no listed course
\* left with an unused passing record.
C21_SubGroupsIndependent ==
    \A s \in ProcessedStrands :
        SelectionRule(gen_ed.strands[s]) = "choose_all_sub_groups" =>
            \A g \in 1..Len(SubGroupsOf(gen_ed.strands[s])) :
                LET sg      == SubGroupsOf(gen_ed.strands[s])[g]
                    awards  == SubGroupAwards(s, g)
                    credit  == SumCredit(awards)
                    entries == MissingAt("sub_group missing credits", s, g)
                IN  IF credit < sg.required_credits
                    THEN /\ Cardinality(entries) = 1
                         /\ \A k \in entries :
                               /\ ge.missing_courses[k].description.deficit
                                     = sg.required_credits - credit
                               /\ ge.missing_courses[k].description.options
                                     = Options(sg.courses)
                         /\ \A c \in 1..Len(sg.courses) :
                               \/ \E a \in 1..Len(awards) :
                                     awards[a].code = sg.courses[c].code
                               \/ ~HasMatch(UsedUpTo(s, g), sg.courses[c].code)
                    ELSE entries = {}

\* C21 witness: the first sub-group of a strand found nothing and has its
\* entry with the whole requirement as deficit; the second sub-group matched
\* and met its requirement, and has no entry.
C21_Witness ==
    /\ pc = "gen_ed_strands"
    /\ \E s \in ProcessedStrands :
          /\ SelectionRule(gen_ed.strands[s]) = "choose_all_sub_groups"
          /\ Len(SubGroupsOf(gen_ed.strands[s])) >= 2
          /\ SubGroupAwards(s, 1) = <<>>
          /\ \E k \in MissingAt("sub_group missing credits", s, 1) :
                ge.missing_courses[k].description.deficit
                    = SubGroupsOf(gen_ed.strands[s])[1].required_credits
          /\ SubGroupAwards(s, 2) # <<>>
          /\ MissingAt("sub_group missing credits", s, 2) = {}

\* ---------------------------------------------------------------- C22
\* the awards one strand made under one selection rule
StrandAwards(s, kind) ==
    SelectSeq(ge.log, LAMBDA a : a.kind = kind /\ a.pos = s)

\* the strand at position s made no award and has exactly one entry of the
\* given format, or made an award and has no entry
OneEntryOrMatch(s, rule, kind) ==
    IF StrandAwards(s, rule) = <<>>
    THEN Cardinality(MissingAt(kind, s, 0)) = 1
    ELSE MissingAt(kind, s, 0) = {}

\* the same for strands whose option (pair) list is present in the curriculum
PresentListsReported ==
    /\ \A s \in ProcessedStrands :
          LET strand == gen_ed.strands[s]
              rule   == SelectionRule(strand)
          IN  /\ (rule = "choose_one" /\ IsSome(strand.courses))
                    => OneEntryOrMatch(s, "choose_one", "choose 1")
              /\ (rule = "choose_sequential_pair" /\ IsSome(strand.sequence_groups))
                    => OneEntryOrMatch(s, "choose_sequential_pair", "choose one pair")
    /\ AfterCapstone
          => IF OfKind(mj.log, {"Capstone"}) = <<>>
             THEN Len(OfCategory(mj.missing_courses, {"Capstone"})) = 1
             ELSE Len(OfCategory(mj.missing_courses, {"Capstone"})) = 0

\* C22: a ChooseOne strand, a ChooseSequentialPair strand and the Capstone
\* each have exactly one missing entry when none of their options (pairs)
\* matched, and no missing entry when one matched.
C22_OneEntryIffNoMatch ==
    /\ \A s \in ProcessedStrands :
          LET rule == SelectionRule(gen_ed.strands[s])
          IN  /\ rule = "choose_one"
                    => OneEntryOrMatch(s, "choose_one", "choose 1")
              /\ rule = "choose_sequential_pair"
                    => OneEntryOrMatch(s, "choose_sequential_pair", "choose one pair")
    /\ AfterCapstone
          => IF OfKind(mj.log, {"Capstone"}) = <<>>
             THEN Len(OfCategory(mj.missing_courses, {"Capstone"})) = 1
             ELSE Len(OfCategory(mj.missing_courses, {"Capstone"})) = 0

\* ---------------------------------------------------------------- C23
AfterElectives == pc # "gen_ed_strands"

SubCategories == gen_ed.electives.sub_categories

\* the awards of elective sub-category sc, in the order they were made
SubCatAwards(sc) == StrandAwards(sc, "gen_ed_elective")

\* the listed courses of a sub-category that carry a given code
ListedAs(sub_cat, code) ==
    {c \in 1..Len(sub_cat.courses) : sub_cat.courses[c].code = code}

\* C23: when the GenEd electives are done, each listed course of each
\* sub-category has consumed at most one record, every such award is the
\* declared credit capped by the parsed credit of its record, the running
\* GenEd-elective total is the sum of the awards of all sub-categories, a
\* sub-category has a missing entry (with its deficit) exactly when the sum
\* of its own awards is below its required_credits, and there is one summary
\* entry exactly when the running total is below the elective requirement.
C23_Electives ==
    AfterElectives =>
        /\ \A sc \in 1..Len(SubCategories) :
              LET sub_cat == SubCategories[sc]
                  awards  == SubCatAwards(sc)
                  total   == SumCredit(awards)
                  entries == MissingAt("sub_cat missing credits", sc, 0)
              IN  /\ \A a \in 1..Len(awards) :
                        /\ ListedAs(sub_cat, awards[a].code) # {}
                        /\ Cardinality({b \in 1..Len(awards) :
                                          awards[b].code = awards[a].code})
                              <= Cardinality(ListedAs(sub_cat, awards[a].code))
                        /\ awards[a].credit
                              = MinCredit(awards[a].declared,
                                          courses[awards[a].idx].parsed_credit)
                  /\ IF total < sub_cat.required_credits
                     THEN /\ Cardinality(entries) = 1
                          /\ \A k \in entries :
                                ge.missing_courses[k].description.deficit
                                    = sub_cat.required_credits - total
                     ELSE entries = {}
        /\ ge.gen_ed_elective_total_credits
              = SumCredit(OfKind(ge.log, {"gen_ed_elective"}))
        /\ LET summary == MissingAt("electives missing credits", 0, 0)
           IN  IF ge.gen_ed_elective_total_credits
                     < gen_ed.electives.total_required_credits
               THEN /\ Cardinality(summary) = 1
                    /\ \A k \in summary :
                          ge.missing_courses[k].description.deficit
                              = gen_ed.electives.total_required_credits
                                  - ge.gen_ed_elective_total_credits
               ELSE summary = {}

\* C23 witness: one sub-category was credited and has no entry, a later one
\* is short of its own requirement and has its entry although the running
\* total has passed that requirement, and the summary entry is there.
C23_Witness ==
    /\ pc = "gen_ed_overall"
    /\ \E sc \in 1..Len(SubCategories) :
          /\ SubCatAwards(sc) # <<>>
          /\ MissingAt("sub_cat missing credits", sc, 0) = {}
    /\ \E sc \in 1..Len(SubCategories) :
          /\ MissingAt("sub_cat missing credits", sc, 0) # {}
          /\ ge.gen_ed_elective_total_credits >= SubCategories[sc].required_credits
    /\ MissingAt("electives missing credits", 0, 0) # {}

\* ---------------------------------------------------------------- C24
AfterOverall == pc \notin {"gen_ed_strands", "gen_ed_overall"}

\* the entries the overall step appended
OverallAppended ==
    {k \in 1..Len(ge.missing_courses) :
        ge.missing_courses[k].description.kind = "overall missing credits"}

\* the entries that read as an "Overall General Education" summary
OverallEntries ==
    {k \in 1..Len(ge.missing_courses) : StartsWithOverall(ge.missing_courses[k])}

\* C24: audit_gen_ed appends an "Overall General Education" summary entry
\* only at its end, only when the GenEd credits collected are below the
\* overall requirement (the entry states the deficit) and no other entry of
\* the list reads as such a summary; it appends at most one; and whenever the
\* credits are below the requirement the returned list has such an entry.
C24_OverallSummary ==
    /\ Cardinality(OverallAppended) <= 1
    /\ ~AfterOverall => OverallAppended = {}
    /\ \A k \in OverallAppended :
          /\ ge.completed_credits < gen_ed.total_required_credits
          /\ ge.missing_courses[k].description.deficit
                = gen_ed.total_required_credits - ge.completed_credits
          /\ OverallEntries = {k}
    /\ (AfterOverall /\ ge.completed_credits < gen_ed.total_required_credits)
          => OverallEntries # {}

\* C24 witness: audit_gen_ed has returned with credits below the overall
\* requirement, some credit collected, and the summary entry it appended.
C24_Witness ==
    /\ pc = "basic_science"
    /\ 0 < ge.completed_credits
    /\ ge.completed_credits < gen_ed.total_required_credits
    /\ OverallAppended # {}

\* the guard at work: credits are short, an earlier entry reads as the
\* summary, and nothing was appended
OverallGuarded ==
    /\ pc = "basic_science"
    /\ ge.completed_credits < gen_ed.total_required_credits
    /\ OverallEntries # {}
    /\ OverallAppended = {}

\* ---------------------------------------------------------------- C25
ClusterAwards == OfKind(mj.log, {"cluster"})

\* the records audit_major had consumed when course k of cluster c was
\* looked up
UsedAtCluster(c, k) ==
    {mj.log[j].idx : j \in {i \in 1..Len(mj.log) :
        \/ mj.log[i].kind \in {"Basic Science", "Core Courses", "Capstone"}
        \/ /\ mj.log[i].kind = "cluster"
           /\ \/ mj.log[i].pos < c
              \/ mj.log[i].pos = c /\ mj.log[i].sub < k}}

\* the clusters ahead of cluster c that count as completed
CompletedBefore(c) == {d \in CompletedClusters : d < c}

ClusterEntries == OfCategory(mj.missing_courses, {"Major Electives"})

\* C25: every course of every cluster of every domain is looked up, whatever
\* the number of clusters completed so far: a listed course without an award
\* had no unused passing record at its turn, and every award is the declared
\* credit capped by the parsed credit, added to the elective credits.  A
\* count of completed clusters below clusters_to_complete leaves exactly one
\* entry, the summary with the shortfall, and a count that is met leaves
\* none: there is never an entry per cluster.
C25_ClustersNoEarlyExit ==
    AfterClusters =>
        /\ \A c \in 1..Len(AllClusters) :
              \A k \in 1..Len(AllClusters[c].courses) :
                  LET at == {a \in 1..Len(ClusterAwards) :
                                ClusterAwards[a].pos = c /\ ClusterAwards[a].sub = k}
                  IN  IF HasMatch(UsedAtCluster(c, k), AllClusters[c].courses[k].code)
                      THEN /\ Cardinality(at) = 1
                           /\ \A a \in at :
                                 ClusterAwards[a].credit
                                    = MinCredit(AllClusters[c].courses[k].credits,
                                                courses[ClusterAwards[a].idx].parsed_credit)
                      ELSE at = {}
        /\ mj.elective_credits = SumCredit(OfKind(mj.log, {"cluster", "others"}))
        /\ IF mj.completed_clusters_count < major.electives.clusters_to_complete
           THEN /\ Len(ClusterEntries) = 1
                /\ ClusterEntries[1].description.kind = "clusters"
                /\ ClusterEntries[1].description.deficit
                      = major.electives.clusters_to_complete
                          - mj.completed_clusters_count
           ELSE ClusterEntries = <<>>

\* C25 witness: a record was consumed and credited for a cluster that comes
\* after as many completed clusters as the curriculum asks for, and there is
\* no cluster entry.
C25_Witness ==
    /\ pc = "others"
    /\ major.electives.clusters_to_complete > 0
    /\ \E a \in 1..Len(ClusterAwards) :
          /\ Cardinality(CompletedBefore(ClusterAwards[a].pos))
                >= major.electives.clusters_to_complete
          /\ ClusterAwards[a].credit > 0
    /\ ClusterEntries = <<>>

\* ---------------------------------------------------------------- C26
\* the records shown in the bucket of category c of the final result
BucketIdx(c) ==
    {Final.categories[c].courses[k].idx : k \in 1..Len(Final.categories[c].courses)}

\* the entries of any bucket that show record i
ShownIn(c, i) ==
    {k \in 1..Len(Final.categories[c].courses) : Final.categories[c].courses[k].idx = i}

RECURSIVE SumShown(_)
\* the parsed credits of the courses shown in a bucket
SumShown(list) ==
    IF list = <<>> THEN 0 ELSE Head(list).credit + SumShown(Tail(list))

\* each record is shown at most once over the three buckets
AtMostOneBucket ==
    \A i \in 1..Len(courses) :
        Cardinality(ShownIn(1, i)) + Cardinality(ShownIn(2, i))
            + Cardinality(ShownIn(3, i)) <= 1

\* what the buckets do agree with: the GenEd-used set, the Major-used indices
\* that are not GenEd-used as well, and the records the collector credited
BucketsAsWalked ==
    pc = "done" =>
        /\ AtMostOneBucket
        /\ BucketIdx(1) = GenEdUsed
        /\ BucketIdx(2) = MajorUsed \ GenEdUsed
        /\ BucketIdx(3) = FreeCounted
        /\ SumShown(Final.categories[3].courses) = Final.categories[3].collected_credits

\* C26: in the final result each record is shown in at most one of the three
\* buckets: in the GenEd bucket exactly when its index is in the GenEd-used
\* set, in the Major bucket exactly when its index is in the Major-used set,
\* and in the Free Electives bucket exactly when calculate_free_electives
\* credited it; the parsed credits shown in the Free Electives bucket add up
\* to that category's collected_credits.
C26_BucketsAgree ==
    pc = "done" =>
        /\ AtMostOneBucket
        /\ BucketIdx(1) = GenEdUsed
        /\ BucketIdx(2) = MajorUsed
        /\ BucketIdx(3) = FreeCounted
        /\ SumShown(Final.categories[3].courses) = Final.categories[3].collected_credits

\* ---------------------------------------------------------------- C27
\* every award of a log went to a record no earlier award of that log went to
FreshAwards(log) ==
    \A k \in 1..Len(log) : log[k].idx \notin UsedBefore(log, k)

\* the same, leaving out the awards of sequential pairs
FreshOutsidePairs ==
    /\ \A k \in 1..Len(ge.log) :
          ge.log[k].kind # "choose_sequential_pair"
              => ge.log[k].idx \notin UsedBefore(ge.log, k)
    /\ FreshAwards(mj.log)
    /\ ge.used_indices = LogIdx(ge.log)
    /\ mj.used_indices = LogIdx(mj.log)

\* C27: within one allocator call (audit_gen_ed, audit_major) every credit
\* award goes to a record that was not in that call's used set just before
\* the award, so that no record is credited for two requirements or twice for
\* one; the two halves of a sequential pair are two distinct records, also
\* when the pair names one code twice.
C27_AwardToUnused ==
    /\ FreshAwards(ge.log)
    /\ FreshAwards(mj.log)

\* ---------------------------------------------------------------- C28
NotPassing == {i \in 1..Len(courses) : ~Passing(i)}

\* the awards of a log that went to passing records
ToPassing(log) == SelectSeq(log, LAMBDA a : Passing(a.idx))

\* the entries of the collector's list that stand for passing records
ListedPassing == SelectSeq(fe.free_elective_list, LAMBDA e : Passing(e.idx))

\* C28: a record whose grade is not passing is in neither used set and is not
\* counted as a free elective; every credit total is the sum of what the
\* passing records were awarded; the count of completed clusters is the one
\* the passing records alone give; and in the final result the record is
\* shown in none of the three buckets.
C28_NonPassingIgnored ==
    /\ NotPassing \cap (GenEdUsed \cup MajorUsed \cup FreeCounted) = {}
    /\ NotPassing \cap (LogIdx(ge.log) \cup LogIdx(mj.log)) = {}
    /\ ge.completed_credits = SumCredit(ToPassing(ge.log))
    /\ mj.completed_credits + mj.elective_credits = SumCredit(ToPassing(mj.log))
    /\ fe.free_elective_credits = SumListed(ListedPassing)
    /\ AfterClusters => mj.completed_clusters_count = Cardinality(CompletedClusters)
    /\ pc = "done" =>
          /\ NotPassing \cap (BucketIdx(1) \cup BucketIdx(2) \cup BucketIdx(3)) = {}
          /\ Final.total_credits
                = SumCredit(ToPassing(ge.log)) + SumCredit(ToPassing(mj.log))
                    + SumListed(ListedPassing)

\* C28 witness: the audit is over; a record that is not passing comes ahead
\* of a passing record of the same code that was consumed, and its code is a
\* cluster course of a cluster that is not completed.
C28_Witness ==
    /\ pc = "done"
    /\ \E i \in NotPassing :
          /\ \E j \in GenEdUsed \cup MajorUsed :
                i < j /\ courses[j].code = courses[i].code
    /\ \E i \in NotPassing :
          \E c \in 1..Len(AllClusters) :
              /\ c \notin CompletedClusters
              /\ \E k \in 1..Len(AllClusters[c].courses) :
                    AllClusters[c].courses[k].code = courses[i].code

\* ---------------------------------------------------------------- C29
\* C29: in the final result total_credits is at most the sum of the parsed
\* credits of all passing records of the transcript, and the
\* collected_credits of each category are at most the sum of the parsed
\* credits of the records shown in the bucket of that category.
C29_NoCreditFromNothing ==
    pc = "done" =>
        /\ Final.total_credits
              <= SumParsed(courses, {i \in 1..Len(courses) : Passing(i)})
        /\ \A c \in 1..3 :
              Final.categories[c].collected_credits
                  <= SumShown(Final.categories[c].courses)

\* the part of it that concerns the total alone
TotalWithinTranscript ==
    pc = "done" =>
        Final.total_credits <= SumParsed(courses, {i \in 1..Len(courses) : Passing(i)})

\* the part of it that concerns the GenEd category alone
GenEdWithinBucket ==
    pc = "done" =>
        Final.categories[1].collected_credits <= SumShown(Final.categories[1].courses)

\* ---------------------------------------------------------------- C30
\* the analysis is over and shows a result or an error, not both
Settled ==
    /\ ~ui.is_loading
    /\ IsSome(ui.audit_result) # IsSome(ui.error_msg)

NeverBoth == ~(IsSome(ui.audit_result) /\ IsSome(ui.error_msg))

\* an analysis whose task was spawned does end, with a result or an error
SpawnedTaskEnds == (ui.task.at # "none") ~> Settled

\* loading without a task: nothing is left to end it
Stuck == ui.is_loading /\ ui.task.at = "none"

\* C30: every analysis started while a file name is set, whether the file
\* was chosen through the file input or dropped on the drop zone, eventually
\* leaves the loading state with is_loading false and exactly one of
\* audit_result and error_msg set, and the two are never set together.
C30_LoadingEnds ==
    /\ []NeverBoth
    /\ ui.is_loading ~> Settled

====
